---- MODULE Spec2Model ----
(***************************************************************************)
(* A model of the bluefluff gateway (pyfluffd): the per-device connection  *)
(* object PyFluffConnect (pyfluff_con.py), its keep-alive task and its     *)
(* one-shot notification waiters, and the device table connected_furbys    *)
(* with the loop-side coroutines of the HTTP handlers (pyfluffd.py).       *)
(*                                                                         *)
(* Every coroutine runs on one asyncio event loop: a step of the model is  *)
(* the code a coroutine runs between two suspension points (an await of a  *)
(* pending future).  Which ready coroutine runs next is left open: other   *)
(* threads submit coroutines with run_coroutine_threadsafe and the         *)
(* transport completes its futures at times the loop does not choose.      *)
(* A gateway call that times out leaves its coroutine running, so the      *)
(* coroutines of several requests can be in flight at once.                *)
(***************************************************************************)
EXTENDS Integers, Sequences, FiniteSets, TLC

\* ---------------------------------------------------------------- bounds
NumAddr == 1      \* device addresses that requests name (one-device specifications)
NumFurby == 2     \* device addresses in all (keys connected_furbys can hold)
MaxConn == 2      \* PyFluffConnect objects ever constructed
MaxTask == 3      \* keep-alive tasks ever created
NumProc == 2      \* coroutines that can be in flight at once

None == 0         \* Python's None, in every optional field

Addr == 1..NumAddr
Furby == 1..NumFurby
Conn == 1..MaxConn
Task == 1..MaxTask
Proc == 1..NumProc

VARIABLES
    connected_furbys,   \* pyfluffd.connected_furbys: Furby -> Conn, or None (no such key)
    address,            \* PyFluffConnect.address: Conn -> Addr, None = object not constructed
    client,             \* PyFluffConnect.client: Conn -> "BleakClient" or "None"
    link,               \* BleakClient.is_connected of a connection's client: Conn -> BOOLEAN
    idle_interval,      \* PyFluffConnect.idle_interval: Conn -> Task or None
    task,               \* the keep-alive tasks: Task -> [conn, pc, cancel, frame (the write
                        \* in progress), failed (history: the transport raised in the last write)]
    proc,               \* the coroutines in flight: Proc -> [op, pc, conn, addr, task, pred, result, data,
                        \* name, params (execute_action's arguments), cmd (the action function
                        \* running), todo, rest (writes still to issue), out (writes issued)]
    stopped,            \* history: Conn -> a stop_idle has returned and no start_idle was called since
    gp_listen_callback, \* PyFluffConnect.gp_listen_callback: Conn -> "callback" or "None"
    notifying,          \* the transport delivers GeneralPlus notifications: Conn -> BOOLEAN
    one_time_gp_callbacks, \* PyFluffConnect.one_time_gp_callbacks: Conn -> the dict's items in
                        \* insertion order, each [id, fut]: id(condition_check) and the future
    fut,                \* the future of each coroutine's wait: Proc -> [state, data]
    inbox,              \* the _notification_handler tasks created and not yet run, oldest first:
                        \* [conn, data, cb, waiting, sender]
    callback_called,    \* history: the persistent callback was called with the newest frame
    dispatch,           \* the _execute_command_async coroutine of a POST /cmd request: [pc, name,
                        \* params, target, active_targets, tasks, success, response_data]
    gateway,            \* the HTTP handler thread: [pc, call, p, status, timed_out]
    nordic_listen_callback, \* PyFluffConnect.nordic_listen_callback: Conn -> "callback" or "None"
    nordic_notifying    \* the transport delivers Nordic notifications: Conn -> BOOLEAN

\* The connection side of the state, the gateway side, and the waiter side
\* (which the gateway side goes with: no connection or wait step touches it).
cvars == <<connected_furbys, address, client, link, idle_interval, task, stopped>>
gvars == <<dispatch, gateway>>
nvars == <<nordic_listen_callback, nordic_notifying>>
wvars == <<gp_listen_callback, notifying, one_time_gp_callbacks, fut, inbox, callback_called, gvars,
           nvars>>
vars == <<connected_furbys, address, client, link, idle_interval, task, proc, stopped,
          gp_listen_callback, notifying, one_time_gp_callbacks, fut, inbox, callback_called,
          dispatch, gateway, nordic_listen_callback, nordic_notifying>>

\* ------------------------------------------------------- the connection
is_connected(c) == client[c] # "None" /\ link[c]

\* asyncio.Task.done(): finished or cancelled.
done(t) == task[t].pc \in {"done", "cancelled"}

\* A keep-alive task that was created and has not finished.
Live(t) == task[t].pc \in {"new", "write", "sleep"}

LiveTasks(c) == {t \in Task : Live(t) /\ task[t].conn = c}

FreeTasks == {t \in Task : task[t].pc = "unborn"}
NewTask == CHOOSE t \in FreeTasks : \A u \in FreeTasks : t <= u

FreeConns == {c \in Conn : address[c] = None}
NewConn == CHOOSE c \in FreeConns : \A d \in FreeConns : c <= d

\* A coroutine that is not running is "idle"; result is then what its last
\* call returned or raised, and the call's locals are gone.
NoCall == [op |-> "none", pc |-> "idle", conn |-> None, addr |-> None,
           task |-> None, pred |-> None, result |-> "none", data |-> <<>>,
           name |-> <<>>, params |-> [dict |-> FALSE, vals |-> <<>>], cmd |-> "none",
           todo |-> <<>>, rest |-> <<>>, out |-> <<>>]

Call(op, c, a) == [NoCall EXCEPT !.op = op, !.conn = c, !.addr = a]

Returned(res) == [NoCall EXCEPT !.result = res]

\* No wait in progress: the coroutine has no future.
NoFuture == [state |-> "none", data |-> <<>>]

\* A keep-alive task that was not created.
NoTask == [conn |-> None, pc |-> "unborn", cancel |-> FALSE, frame |-> <<>>, failed |-> FALSE]

\* No _execute_command_async coroutine exists.
NoDispatch ==
    [pc |-> "none", name |-> <<>>, params |-> [dict |-> FALSE, vals |-> <<>>], target |-> None,
     active_targets |-> <<>>, tasks |-> <<>>, success |-> FALSE, response_data |-> <<>>]

\* The HTTP handler is between requests.
NoRequest == [pc |-> "idle", call |-> "none", p |-> None, status |-> 0, timed_out |-> FALSE]

Init ==
    /\ connected_furbys = [a \in Furby |-> None]
    /\ address = [c \in Conn |-> None]
    /\ client = [c \in Conn |-> "None"]
    /\ link = [c \in Conn |-> FALSE]
    /\ idle_interval = [c \in Conn |-> None]
    /\ task = [t \in Task |-> NoTask]
    /\ proc = [p \in Proc |-> NoCall]
    /\ stopped = [c \in Conn |-> FALSE]
    /\ gp_listen_callback = [c \in Conn |-> "None"]
    /\ notifying = [c \in Conn |-> FALSE]
    /\ one_time_gp_callbacks = [c \in Conn |-> <<>>]
    /\ fut = [p \in Proc |-> NoFuture]
    /\ inbox = <<>>
    /\ callback_called = FALSE
    /\ dispatch = NoDispatch
    /\ gateway = NoRequest
    /\ nordic_listen_callback = [c \in Conn |-> "None"]
    /\ nordic_notifying = [c \in Conn |-> FALSE]

\* ------------------------------------------------ start_idle, stop_idle
\* start_idle creates a task: connected, and no task or a finished one.
StartsTask(c, connected) ==
    connected /\ (idle_interval[c] = None \/ done(idle_interval[c]))

\* PyFluffConnect.start_idle, the connection being `connected` when it runs.
start_idle(c, connected) ==
    IF StartsTask(c, connected)
    THEN /\ FreeTasks # {}
         /\ task' = [task EXCEPT ![NewTask] = [NoTask EXCEPT !.conn = c, !.pc = "new"]]
         /\ idle_interval' = [idle_interval EXCEPT ![c] = NewTask]
    ELSE UNCHANGED <<task, idle_interval>>

\* stop_idle finds a task to cancel and await.
IdleRunning(c) == idle_interval[c] # None /\ ~done(idle_interval[c])

\* What stop_idle leaves in idle_interval once the awaited task has finished.
AfterAwait(c) == None

\* PyFluffConnect.stop_idle up to its await, inside the call r of coroutine p:
\* it cancels the running task and suspends on it; with no running task it
\* returns at once and the caller goes on with `after`.
stop_idle(p, r, after) ==
    LET c == r.conn IN
    IF IdleRunning(c)
    THEN /\ task' = [task EXCEPT ![idle_interval[c]].cancel = TRUE]
         /\ proc' = [proc EXCEPT ![p] =
                 [r EXCEPT !.pc = "stop_await", !.task = idle_interval[c]]]
         /\ UNCHANGED stopped
    ELSE /\ proc' = [proc EXCEPT ![p] = after]
         /\ stopped' = [stopped EXCEPT ![c] = TRUE]
         /\ UNCHANGED task

\* A targeted POST /cmd/set_idle: _execute_command_async looks the target up,
\* execute_action calls pyfluff_action.set_idle: idle = 1 starts the loop,
\* idle = 0 stops it, any other value is refused.
CmdSetIdle(p, a, idle_flag) ==
    LET c == connected_furbys[a] IN
    /\ proc[p].pc = "idle"
    /\ IF c = None \/ ~is_connected(c)
       THEN /\ proc' = [proc EXCEPT ![p] = Returned("target_not_found")]
            /\ UNCHANGED <<task, idle_interval, stopped>>
       ELSE IF idle_flag = 1
       THEN /\ start_idle(c, is_connected(c))
            /\ proc' = [proc EXCEPT ![p] = Returned("True")]
            /\ stopped' = [stopped EXCEPT ![c] = FALSE]
       ELSE IF idle_flag = 0
       THEN /\ stop_idle(p, Call("set_idle", c, a), Returned("True"))
            /\ UNCHANGED idle_interval
       ELSE /\ proc' = [proc EXCEPT ![p] = Returned("False")]
            /\ UNCHANGED <<task, idle_interval, stopped>>
    /\ UNCHANGED <<connected_furbys, address, client, link>>
    /\ UNCHANGED wvars

\* ---------------------------------------------------- connect, disconnect
\* A _connect_async that never takes its early return.
NeverAlreadyConnected(a) == FALSE

\* _connect_async's test for an entry that is there and connected.
AlreadyConnected(a) ==
    connected_furbys[a] # None /\ is_connected(connected_furbys[a])

\* disconnect() has returned into _disconnect_async, which deletes the key
\* (KeyError when another coroutine has deleted it meanwhile).
DisconnectReturns(p, r) ==
    IF connected_furbys[r.addr] # None
    THEN /\ connected_furbys' = [connected_furbys EXCEPT ![r.addr] = None]
         /\ proc' = [proc EXCEPT ![p] = Returned("disconnected")]
    ELSE /\ proc' = [proc EXCEPT ![p] = Returned("KeyError")]
         /\ UNCHANGED connected_furbys

\* pyfluffd._disconnect_async(address) with PyFluffConnect.disconnect, up to
\* the first suspension.
DisconnectAsync(p, a) ==
    LET c == connected_furbys[a]
        r == Call("disconnect_async", c, a)
    IN
    /\ proc[p].pc = "idle"
    /\ IF c = None
       THEN /\ proc' = [proc EXCEPT ![p] = Returned("not_found")]
            /\ UNCHANGED <<connected_furbys, task, stopped>>
       ELSE IF is_connected(c)
       THEN /\ stop_idle(p, r, [r EXCEPT !.pc = "disc_transport"])
            /\ UNCHANGED connected_furbys
       ELSE /\ DisconnectReturns(p, r)
            /\ UNCHANGED <<task, stopped>>
    /\ UNCHANGED <<address, client, link, idle_interval>>
    /\ UNCHANGED wvars

\* The awaited keep-alive task has finished: stop_idle clears idle_interval
\* and returns into its caller: set_idle returns True, disconnect goes on to
\* the transport disconnect.
StopIdleResume(p) ==
    LET c == proc[p].conn IN
    /\ proc[p].pc = "stop_await"
    /\ done(proc[p].task)
    /\ idle_interval' = [idle_interval EXCEPT ![c] = AfterAwait(c)]
    /\ stopped' = [stopped EXCEPT ![c] = TRUE]
    /\ proc' = [proc EXCEPT ![p] =
            IF proc[p].op = "disconnect_async"
            THEN [proc[p] EXCEPT !.pc = "disc_transport", !.task = None]
            ELSE Returned("True")]
    /\ UNCHANGED <<connected_furbys, address, client, link, task>>
    /\ UNCHANGED wvars

\* The transport's disconnect completes: the link is closed, or the call
\* raised (disconnect() logs the error) and the link is as it was.
DiscTransportDone(p) ==
    /\ proc[p].pc = "disc_transport"
    /\ \E ok \in BOOLEAN :
          link' = IF ok THEN [link EXCEPT ![proc[p].conn] = FALSE] ELSE link
    /\ DisconnectReturns(p, proc[p])
    /\ UNCHANGED <<address, client, idle_interval, task, stopped>>
    /\ UNCHANGED wvars

\* pyfluffd._connect_async(address) with PyFluffConnect.connect on the new
\* object, up to the transport connect.
ConnectAsync(p, a) ==
    /\ proc[p].pc = "idle"
    /\ IF AlreadyConnected(a)
       THEN /\ proc' = [proc EXCEPT ![p] = Returned("already_connected")]
            /\ UNCHANGED <<address, client>>
       ELSE /\ FreeConns # {}
            /\ address' = [address EXCEPT ![NewConn] = a]
            /\ client' = [client EXCEPT ![NewConn] = "BleakClient"]
            /\ proc' = [proc EXCEPT ![p] =
                    [Call("connect_async", NewConn, a) EXCEPT !.pc = "conn_transport"]]
    /\ UNCHANGED <<connected_furbys, link, idle_interval, task, stopped>>
    /\ UNCHANGED wvars

\* A connect that stores the connection whatever connect() returned.
StoredRegardless(a, c, is_connected_flag) == [connected_furbys EXCEPT ![a] = c]

\* connected_furbys after connect() has returned is_connected_flag to
\* _connect_async: the new connection is stored on success only.
StoredAfterConnect(a, c, is_connected_flag) ==
    IF is_connected_flag THEN [connected_furbys EXCEPT ![a] = c] ELSE connected_furbys

\* A connect() that leaves its client in place when the transport fails.
ClientKept == "BleakClient"

\* `self.client = None` in connect()'s except clauses.
ClientAfterFailure == "None"

\* What asyncio.create_task(fluff_conn.start_idle(), name=...) makes of
\* _connect_async's outcome: start_idle() has run and returned None, and
\* create_task(None) raises TypeError out of the coroutine.
ConnectedOutcome == "TypeError"

\* The transport's connect completes.  On success connect() returns True and
\* _connect_async stores the connection and starts idle mode.  On failure
\* connect() resets client and returns False; the object is dropped.
ConnTransportDone(p) ==
    LET c == proc[p].conn IN
    /\ proc[p].pc = "conn_transport"
    /\ \E ok \in BOOLEAN :
          IF ok
          THEN /\ link' = [link EXCEPT ![c] = TRUE]
               /\ connected_furbys' = StoredAfterConnect(proc[p].addr, c, TRUE)
               /\ start_idle(c, TRUE)
               /\ stopped' = [stopped EXCEPT ![c] = FALSE]
               /\ proc' = [proc EXCEPT ![p] = Returned(ConnectedOutcome)]
               /\ UNCHANGED <<client, address>>
          ELSE /\ client' = [client EXCEPT ![c] = ClientAfterFailure]
               /\ address' = [address EXCEPT ![c] = None]
               /\ connected_furbys' = StoredAfterConnect(proc[p].addr, c, FALSE)
               /\ proc' = [proc EXCEPT ![p] = Returned("connect_failed")]
               /\ UNCHANGED <<link, idle_interval, task, stopped>>
    /\ UNCHANGED wvars

\* PyFluffConnect(address): an object is constructed; nothing is connected.
Construct(a) ==
    /\ FreeConns # {}
    /\ address' = [address EXCEPT ![NewConn] = a]
    /\ UNCHANGED <<connected_furbys, client, link, idle_interval, task, proc, stopped>>
    /\ UNCHANGED wvars

\* A connect() is in progress on object c (its callers await it: one at a
\* time).
ConnectInFlight(c) ==
    \E q \in Proc : proc[q].conn = c /\ proc[q].pc \in {"connect_transport", "conn_transport"}

\* connect() called on the constructed object c, up to the transport
\* connect: True at once when is_connected, else a BleakClient is created
\* and its connect awaited.
Connect(p, c) ==
    /\ proc[p].pc = "idle"
    /\ address[c] # None
    /\ ~ConnectInFlight(c)
    /\ IF is_connected(c)
       THEN /\ proc' = [proc EXCEPT ![p] = Returned("True")]
            /\ UNCHANGED client
       ELSE /\ client' = [client EXCEPT ![c] = "BleakClient"]
            /\ proc' = [proc EXCEPT ![p] =
                    [Call("connect", c, address[c]) EXCEPT !.pc = "connect_transport"]]
    /\ UNCHANGED <<connected_furbys, address, link, idle_interval, task, stopped>>
    /\ UNCHANGED wvars

\* The transport's connect of a connect() call completes: True, or the
\* exception is caught, client is reset and False is returned.  connect()
\* starts no idle task.
ConnectEnds(p) ==
    LET c == proc[p].conn IN
    /\ proc[p].pc = "connect_transport"
    /\ \E ok \in BOOLEAN :
          IF ok
          THEN /\ link' = [link EXCEPT ![c] = TRUE]
               /\ proc' = [proc EXCEPT ![p] = Returned("True")]
               /\ UNCHANGED client
          ELSE /\ client' = [client EXCEPT ![c] = ClientAfterFailure]
               /\ link' = [link EXCEPT ![c] = FALSE]
               /\ proc' = [proc EXCEPT ![p] = Returned("False")]
    /\ UNCHANGED <<connected_furbys, address, idle_interval, task, stopped>>
    /\ UNCHANGED wvars

\* start_idle() called on the object c.
StartIdle(c) ==
    /\ address[c] # None
    /\ start_idle(c, is_connected(c))
    /\ stopped' = [stopped EXCEPT ![c] = FALSE]
    /\ UNCHANGED <<connected_furbys, address, client, link, proc>>
    /\ UNCHANGED wvars

\* The device goes out of range or powers off: the transport reports the
\* link as no longer connected.
LinkDrop(c) ==
    /\ link[c]
    /\ link' = [link EXCEPT ![c] = FALSE]
    /\ UNCHANGED <<connected_furbys, address, client, idle_interval, task, proc, stopped>>
    /\ UNCHANGED wvars

\* ------------------------------------------------------ _keep_alive_idle
\* A loop that writes its byte to the Nordic characteristic.
IdleFrameNordic == [chan |-> "nordic_write", data |-> <<0>>]

\* The loop's frame: general_plus_write(b'\x00'), the characteristic
\* CHAR_GENERALPLUS_WRITE.
IdleFrame == [chan |-> "generalplus_write", data |-> <<0>>]

\* One pass of the loop, from the task's start or from the end of its sleep:
\* connected, general_plus_write(b'\x00') hands the frame to the transport;
\* not connected, the loop breaks and the task finishes.
KeepAliveIterate(t) ==
    /\ task[t].pc \in {"new", "sleep"}
    /\ ~task[t].cancel
    /\ task' = [task EXCEPT ![t] =
           IF is_connected(task[t].conn)
           THEN [task[t] EXCEPT !.pc = "write", !.frame = IdleFrame, !.failed = FALSE]
           ELSE [task[t] EXCEPT !.pc = "done", !.failed = FALSE]]
    /\ UNCHANGED <<connected_furbys, address, client, link, idle_interval, proc, stopped>>
    /\ UNCHANGED wvars

\* Where the loop is after general_plus_write has returned: the method
\* catches what write_gatt_char raises and returns None either way, so the
\* loop goes to its sleep.
AfterIdleWrite(ok) == "sleep"

\* The transport's write completes (ok) or raises (logged and swallowed by
\* general_plus_write).
KeepAliveWritten(t, ok) ==
    /\ task[t].pc = "write"
    /\ ~task[t].cancel
    /\ task' = [task EXCEPT ![t] =
           [task[t] EXCEPT !.pc = AfterIdleWrite(ok), !.frame = <<>>, !.failed = ~ok]]
    /\ UNCHANGED <<connected_furbys, address, client, link, idle_interval, proc, stopped>>
    /\ UNCHANGED wvars

\* The task's next step after cancel(): CancelledError is thrown in at its
\* await and caught by the loop's handler, so the task finishes; a task
\* that never started is cancelled outright.
KeepAliveCancelled(t) ==
    /\ Live(t)
    /\ task[t].cancel
    /\ task' = [task EXCEPT ![t] =
           [task[t] EXCEPT !.pc = IF task[t].pc = "new" THEN "cancelled" ELSE "done",
                           !.frame = <<>>, !.failed = FALSE]]
    /\ UNCHANGED <<connected_furbys, address, client, link, idle_interval, proc, stopped>>
    /\ UNCHANGED wvars

\* ------------------------------------------- GeneralPlus notifications
\* The persistent callbacks a caller registers.
Callback == {"callback"}

\* start_gp_notifications(callback) on a connected connection: the callback
\* is stored, then the transport's start_notify succeeds (frames will be
\* delivered) or raises (logged; the callback stays stored).  Not connected,
\* the method returns without a change.
StartGpNotifications(c, cb) ==
    /\ address[c] # None
    /\ IF is_connected(c)
       THEN /\ gp_listen_callback' = [gp_listen_callback EXCEPT ![c] = cb]
            /\ \E ok \in BOOLEAN :
                  notifying' = IF ok THEN [notifying EXCEPT ![c] = TRUE] ELSE notifying
       ELSE UNCHANGED <<gp_listen_callback, notifying>>
    /\ UNCHANGED <<cvars, proc, one_time_gp_callbacks, fut, inbox, callback_called, gvars, nvars>>

\* stop_gp_notifications() on a connected connection: the transport's
\* stop_notify succeeds (no more frames) or raises (logged; the transport's
\* subscription is as it was), and the finally clause clears the callback.
StopGpNotifications(c) ==
    /\ address[c] # None
    /\ IF is_connected(c)
       THEN /\ gp_listen_callback' = [gp_listen_callback EXCEPT ![c] = "None"]
            /\ \E ok \in BOOLEAN :
                  notifying' = IF ok THEN [notifying EXCEPT ![c] = FALSE] ELSE notifying
       ELSE UNCHANGED <<gp_listen_callback, notifying>>
    /\ UNCHANGED <<cvars, proc, one_time_gp_callbacks, fut, inbox, callback_called, gvars, nvars>>

\* The frames a device sends: "ready to receive" (0x24 0x02) and another
\* status frame (0x24 0x01).
Frame == {<<36, 2>>, <<36, 1>>}

MaxInbox == 1     \* _notification_handler tasks created and not yet run

\* The calls suspended on connection c with a pending future.
WaitingOn(c) ==
    {p \in Proc : /\ proc[p].pc \in {"wait_future", "wait_expired"}
                  /\ proc[p].conn = c
                  /\ fut[p].state = "pending"}

\* The transport delivers a frame: the lambda given to start_notify reads
\* gp_listen_callback now and creates a _notification_handler task with it.
\* (waiting is history: the calls that were waiting when the frame came.)
FrameArrives(c, d) ==
    /\ notifying[c]
    /\ is_connected(c)
    /\ Len(inbox) < MaxInbox
    /\ inbox' = Append(inbox, [conn |-> c, data |-> d, cb |-> gp_listen_callback[c],
                               waiting |-> WaitingOn(c), sender |-> "generalplus_listen"])
    /\ callback_called' = FALSE
    /\ UNCHANGED <<cvars, proc, gp_listen_callback, notifying, one_time_gp_callbacks, fut, gvars, nvars>>

\* start_nordic_notifications(callback) and stop_nordic_notifications(), as
\* their GeneralPlus counterparts, for the characteristic CHAR_NORDIC_LISTEN.
StartNordicNotifications(c, cb) ==
    /\ address[c] # None
    /\ IF is_connected(c)
       THEN /\ nordic_listen_callback' = [nordic_listen_callback EXCEPT ![c] = cb]
            /\ \E ok \in BOOLEAN :
                  nordic_notifying' =
                      IF ok THEN [nordic_notifying EXCEPT ![c] = TRUE] ELSE nordic_notifying
       ELSE UNCHANGED nvars
    /\ UNCHANGED <<cvars, proc, gp_listen_callback, notifying, one_time_gp_callbacks, fut, inbox,
                   callback_called, gvars>>

StopNordicNotifications(c) ==
    /\ address[c] # None
    /\ IF is_connected(c)
       THEN /\ nordic_listen_callback' = [nordic_listen_callback EXCEPT ![c] = "None"]
            /\ \E ok \in BOOLEAN :
                  nordic_notifying' =
                      IF ok THEN [nordic_notifying EXCEPT ![c] = FALSE] ELSE nordic_notifying
       ELSE UNCHANGED nvars
    /\ UNCHANGED <<cvars, proc, gp_listen_callback, notifying, one_time_gp_callbacks, fut, inbox,
                   callback_called, gvars>>

\* The transport delivers a frame of the Nordic characteristic: the lambda
\* given to start_notify reads nordic_listen_callback now and creates a
\* _notification_handler task with it, the same coroutine as for
\* GeneralPlus frames.
NordicFrameArrives(c, d) ==
    /\ nordic_notifying[c]
    /\ is_connected(c)
    /\ Len(inbox) < MaxInbox
    /\ inbox' = Append(inbox, [conn |-> c, data |-> d, cb |-> nordic_listen_callback[c],
                               waiting |-> WaitingOn(c), sender |-> "nordic_listen"])
    /\ callback_called' = FALSE
    /\ UNCHANGED <<cvars, proc, gp_listen_callback, notifying, one_time_gp_callbacks, fut, gvars,
                   nvars>>

\* A condition that accepts every frame.
accepts_any(data) == TRUE

\* flash_dlc's condition_check: lambda data: data and len(data) >= 2 and
\* data[0] == 0x24 and data[1] == 0x02.
condition_check(data) == Len(data) >= 2 /\ data[1] = 36 /\ data[2] = 2

\* The dict one_time_gp_callbacks as the sequence of its items in insertion
\* order: `key in d`, `d[key] = value` (an existing key keeps its place) and
\* `del d[key]`.
HasKey(d, k) == \E i \in DOMAIN d : d[i].id = k

SelectSeqNot(d, k) == SelectSeq(d, LAMBDA e : e.id # k)

Put(d, k, f) ==
    IF HasKey(d, k)
    THEN [i \in DOMAIN d |-> IF d[i].id = k THEN [id |-> k, fut |-> f] ELSE d[i]]
    ELSE Append(d, [id |-> k, fut |-> f])

\* A dict whose `del` leaves the item in place.
KeepKey(d, k) == d

Del(d, k) == SelectSeqNot(d, k)

\* A handler that tests every waiter, done or not.
AnyFuture(f) == TRUE

\* The handler's `not future.done()`.
NotDone(f) == f.state = "pending"

\* The handler's loop over list(one_time_gp_callbacks.items()): the items
\* whose future is not done and whose condition accepts the frame.
Matching(c, data) ==
    {i \in DOMAIN one_time_gp_callbacks[c] :
        NotDone(fut[one_time_gp_callbacks[c][i].fut]) /\ condition_check(data)}

FirstMatch(c, data) == CHOOSE i \in Matching(c, data) : \A j \in Matching(c, data) : i <= j

\* The handler reaches its waiter loop only inside `if callback:`.
TestsWaiters(callback) == callback # "None"

\* A handler that calls the persistent callback for every frame.
CallsAlways(callback, matched) == callback # "None"

\* The handler calls the persistent callback when the loop ended without a
\* match (a match returns before the call).
CallsCallback(callback, matched) == callback # "None" /\ ~matched

\* The oldest _notification_handler task runs.  With a callback it walks the
\* waiters: the first match has its future resolved with the frame and its
\* item deleted, and the handler returns; with no match the persistent
\* callback is called.  Without a callback the frame is dropped.
HandlerRuns ==
    /\ inbox # <<>>
    /\ LET m == Head(inbox)
           c == m.conn
       IN IF TestsWaiters(m.cb) /\ Matching(c, m.data) # {}
          THEN LET e == one_time_gp_callbacks[c][FirstMatch(c, m.data)] IN
               /\ fut' = [fut EXCEPT ![e.fut] = [state |-> "result", data |-> m.data]]
               /\ one_time_gp_callbacks' =
                      [one_time_gp_callbacks EXCEPT ![c] = Del(one_time_gp_callbacks[c], e.id)]
          ELSE UNCHANGED <<fut, one_time_gp_callbacks>>
    /\ callback_called' = CallsCallback(Head(inbox).cb, Matching(Head(inbox).conn, Head(inbox).data) # {})
    /\ inbox' = Tail(inbox)
    /\ UNCHANGED <<cvars, proc, gp_listen_callback, notifying, gvars, nvars>>

\* ------------------------------------------------ pyfluff_action: values
\* A parameter value as the JSON body carries it: a key that is absent, null,
\* an integer, or a string (its characters: 0..9 the digits, 10..15 the
\* letters a..f, 16 a letter that is neither).  v holds the integer or the
\* characters.
Absent == [k |-> "absent", v |-> <<>>]

Null == [k |-> "null", v |-> <<>>]

IntVal(n) == [k |-> "int", v |-> <<n>>]

StrVal(chars) == [k |-> "str", v |-> chars]

\* params as the caller passes it: a dict (vals: the values of the command's
\* parameters, in the order of ParamNames) or another JSON value.
Dict(vals) == [dict |-> TRUE, vals |-> vals]

NotADict == [dict |-> FALSE, vals |-> <<>>]

\* The outcome of a coercion: the number, or ok = FALSE for ValueError or
\* TypeError.
Raises == [ok |-> FALSE, v |-> 0]

Number(n) == [ok |-> TRUE, v |-> n]

\* int() of a string of decimal digits, most significant first.
RECURSIVE Decimal(_)
Decimal(chars) ==
    IF chars = <<>> THEN 0
    ELSE 10 * Decimal(SubSeq(chars, 1, Len(chars) - 1)) + chars[Len(chars)]

\* int(params.get(name, default)): the default for an absent key, TypeError
\* for null, the integer itself, the number a string of digits spells,
\* ValueError for any other string.
Coerce(val, default) ==
    CASE val.k = "absent" -> Number(default)
      [] val.k = "null" -> Raises
      [] val.k = "int" -> Number(val.v[1])
      [] val.k = "str" ->
            IF val.v # <<>> /\ \A i \in DOMAIN val.v : val.v[i] \in 0..9
            THEN Number(Decimal(val.v))
            ELSE Raises

\* params.get(name) of the i-th parameter of the command.
Arg(params, i) == IF i \in DOMAIN params.vals THEN params.vals[i] ELSE Absent

\* Python's `not value` for a parameter value.
Falsy(val) ==
    \/ val.k \in {"absent", "null"}
    \/ val.k = "int" /\ val.v[1] = 0
    \/ val.k = "str" /\ val.v = <<>>

\* bytes.fromhex of a string with no blanks: pairs of hexadecimal digits,
\* most significant first.
RECURSIVE HexPairs(_)
HexPairs(chars) ==
    IF chars = <<>> THEN <<>>
    ELSE <<16 * chars[1] + chars[2]>> \o HexPairs(SubSeq(chars, 3, Len(chars)))

\* bytes.fromhex(cmd_hex): TypeError unless cmd_hex is a string, ValueError
\* for an odd length or a character that is no hexadecimal digit.
FromHex(val) ==
    IF /\ val.k = "str"
       /\ Len(val.v) % 2 = 0
       /\ \A i \in DOMAIN val.v : val.v[i] \in 0..15
    THEN [ok |-> TRUE, v |-> HexPairs(val.v)]
    ELSE [ok |-> FALSE, v |-> <<>>]

\* A bytes() that accepts any integer.
AnyInts(ints) == TRUE

\* bytes([...]) raises ValueError unless every element is in range(256).
Bytes(ints) == \A i \in DOMAIN ints : ints[i] \in 0..255

\* ---------------------------------------------- pyfluff_action: commands
\* What an action function does with its parameters: the writes it issues,
\* in order, each [chan, data], before it returns True; or ok = FALSE when
\* it returns False before its first write.
Refused == [ok |-> FALSE, writes |-> <<>>]

Writes(frames) == [ok |-> TRUE, writes |-> frames]

general_plus_write(data) == [chan |-> "generalplus_write", data |-> data]

nordic_write(data) == [chan |-> "nordic_write", data |-> data]

file_write(data) == [chan |-> "file_write", data |-> data]

\* The integer parameters of an action function, coerced in order with their
\* defaults; ok only when params is a dict and every coercion succeeds.
IntArgs(params, defaults) ==
    LET r == [i \in DOMAIN defaults |-> Coerce(Arg(params, i), defaults[i])] IN
    [ok |-> params.dict /\ \A i \in DOMAIN defaults : r[i].ok,
     v |-> [i \in DOMAIN defaults |-> r[i].v]]

\* An action function that builds one frame from a header and its integer
\* parameters and writes it to the GeneralPlus characteristic.
OneFrame(header, params, defaults) ==
    LET a == IntArgs(params, defaults) IN
    IF a.ok /\ Bytes(header \o a.v)
    THEN Writes(<<general_plus_write(header \o a.v)>>)
    ELSE Refused

\* An antenna that leaves out its command byte.
antenna_bare(params) == OneFrame(<<>>, params, <<0, 0, 0>>)

antenna(params) == OneFrame(<<20>>, params, <<0, 0, 0>>)

debug_screen(params) == Writes(<<general_plus_write(<<219>>)>>)

lcd_light(params) == OneFrame(<<205>>, params, <<0>>)

action(params) == OneFrame(<<19, 0>>, params, <<0, 0, 0, 0>>)

\* set_name announcing the name before it is set.
set_name_announce_first(params) ==
    LET a == IntArgs(params, <<0>>) IN
    IF a.ok /\ a.v[1] \in 0..128
    THEN Writes(<<general_plus_write(<<19, 0, 33, 0, 0, a.v[1]>>),
                  general_plus_write(<<33, a.v[1]>>)>>)
    ELSE Refused

set_name(params) ==
    LET a == IntArgs(params, <<0>>) IN
    IF a.ok /\ a.v[1] \in 0..128
    THEN Writes(<<general_plus_write(<<33, a.v[1]>>),
                  general_plus_write(<<19, 0, 33, 0, 0, a.v[1]>>)>>)
    ELSE Refused

\* custom_command and nordic_custom: the bytes of the hex string in cmd.
HexFrame(params) ==
    IF params.dict /\ ~Falsy(Arg(params, 1)) /\ FromHex(Arg(params, 1)).ok
    THEN FromHex(Arg(params, 1))
    ELSE [ok |-> FALSE, v |-> <<>>]

custom_command(params) ==
    IF HexFrame(params).ok THEN Writes(<<general_plus_write(HexFrame(params).v)>>) ELSE Refused

mood_meter(params) == OneFrame(<<35>>, params, <<0, 0, 0>>)

nordic_custom(params) ==
    IF HexFrame(params).ok THEN Writes(<<nordic_write(HexFrame(params).v)>>) ELSE Refused

nordic_packet_ack(params) ==
    LET a == IntArgs(params, <<-1>>) IN
    IF a.ok /\ a.v[1] \in {0, 1}
    THEN Writes(<<nordic_write(<<9, a.v[1], 0>>)>>)
    ELSE Refused

\* dlc_delete, dlc_load and dlc_deactivate: a slot in 0..255 after a header.
SlotFrame(header, params) ==
    LET a == IntArgs(params, <<-1>>) IN
    IF a.ok /\ a.v[1] \in 0..255
    THEN Writes(<<general_plus_write(header \o a.v)>>)
    ELSE Refused

dlc_delete(params) == SlotFrame(<<116>>, params)

dlc_load(params) == SlotFrame(<<96>>, params)

dlc_activate(params) == Writes(<<general_plus_write(<<97>>)>>)

dlc_deactivate(params) == SlotFrame(<<98>>, params)

\* ----------------------------------------------- pyfluff_action: COMMANDS
\* The keys of COMMANDS whose "function" is an action function.
DirectCommands ==
    {"antenna", "debug", "lcd", "action", "set_name", "custom_command", "set_idle",
     "mood_meter", "nordic_custom", "nordic_packet_ack", "dlc_delete", "flash_dlc",
     "dlc_load", "dlc_activate", "dlc_deactivate"}

\* The keys of COMMANDS with "function": None and a "buttons" dict.
Categories == {"other"}

\* COMMANDS[category]["buttons"]: the target command and the fixed
\* parameters of each shortcut (in the order of the target's parameters).
Buttons(category) ==
    [giggle |-> [cmd |-> "action",
                 params |-> Dict(<<IntVal(55), IntVal(2), IntVal(14), IntVal(0)>>)],
     puke |-> [cmd |-> "action",
               params |-> Dict(<<IntVal(56), IntVal(3), IntVal(15), IntVal(1)>>)],
     say_example_name |-> [cmd |-> "set_name", params |-> Dict(<<IntVal(3)>>)],
     antennaoff |-> [cmd |-> "antenna", params |-> Dict(<<IntVal(0), IntVal(0), IntVal(0)>>)],
     antennared |-> [cmd |-> "antenna", params |-> Dict(<<IntVal(255), IntVal(0), IntVal(0)>>)],
     antennablue |-> [cmd |-> "antenna", params |-> Dict(<<IntVal(0), IntVal(0), IntVal(255)>>)],
     antennagreen |-> [cmd |-> "antenna", params |-> Dict(<<IntVal(0), IntVal(255), IntVal(0)>>)]]

\* A shortcut that hands the caller's params to its target.
CallerParams(button, params) == params

\* The params a shortcut hands to its target: target_cmd_details["params"].
TargetParams(button, params) == button.params

\* A lookup that falls back on debug for a name it does not find.
Fallback == [found |-> TRUE, cmd |-> "debug", params |-> NotADict, depth |-> 0]

\* No command found.
NotFound == [found |-> FALSE, cmd |-> "none", params |-> NotADict, depth |-> 0]

\* execute_action's lookup of command_name, given as its components between
\* '/': a key of COMMANDS with a function is called with params; a category
\* by itself is an error; "category/button" (split at the first '/', so a
\* button never holds a second '/') is executed again as the button's target
\* with the button's params; anything else is not found.  depth counts the
\* recursive calls.
RECURSIVE Resolve(_, _)
Resolve(name, params) ==
    IF Len(name) = 1 /\ name[1] \in DirectCommands
    THEN [found |-> TRUE, cmd |-> name[1], params |-> params, depth |-> 0]
    ELSE IF Len(name) = 1 /\ name[1] \in Categories
    THEN NotFound
    ELSE IF /\ Len(name) = 2
            /\ name[1] \in Categories
            /\ name[2] \in DOMAIN Buttons(name[1])
    THEN LET button == Buttons(name[1])[name[2]]
             r == Resolve(<<button.cmd>>, TargetParams(button, params))
         IN [r EXCEPT !.depth = r.depth + 1]
    ELSE NotFound

\* The action functions that only encode and write.
Encode(cmd, params) ==
    CASE cmd = "antenna" -> antenna(params)
      [] cmd = "debug" -> debug_screen(params)
      [] cmd = "lcd" -> lcd_light(params)
      [] cmd = "action" -> action(params)
      [] cmd = "set_name" -> set_name(params)
      [] cmd = "custom_command" -> custom_command(params)
      [] cmd = "mood_meter" -> mood_meter(params)
      [] cmd = "nordic_custom" -> nordic_custom(params)
      [] cmd = "nordic_packet_ack" -> nordic_packet_ack(params)
      [] cmd = "dlc_delete" -> dlc_delete(params)
      [] cmd = "dlc_load" -> dlc_load(params)
      [] cmd = "dlc_activate" -> dlc_activate(params)
      [] cmd = "dlc_deactivate" -> dlc_deactivate(params)

\* flash_dlc's file: open(dlcfile_path) raises FileNotFoundError, or the
\* file is read; a file of size n holds the bytes 1, 2, .. n (mod 256).
NoFile == [exists |-> FALSE, size |-> 0]

FileOf(size) == [exists |-> TRUE, size |-> size]

dlc_content(file) == [i \in 1..file.size |-> i % 256]

\* str.encode('ascii', 'ignore') of a string of the characters of StrVal.
Ascii(chars) ==
    [i \in DOMAIN chars |->
        IF chars[i] <= 9 THEN 48 + chars[i]
        ELSE IF chars[i] <= 15 THEN 87 + chars[i]
        ELSE 122]

\* flash_dlc up to its first write: False for a params that is no dict (the
\* AttributeError is caught by execute_action), for a missing filename or
\* path, for a file that cannot be opened and for a filename that is no
\* string; otherwise the prepare frame (50 00, the size in three bytes, 02,
\* at most 32 bytes of the filename, 00 00) and the content in pieces of 20.
flash_dlc(params, file) ==
    LET filename == Arg(params, 1)
        dlcfile_path == Arg(params, 2)
        n == file.size
        encoded == Ascii(filename.v)
        pieces == (n + 19) \div 20
    IN IF /\ params.dict
          /\ ~Falsy(filename) /\ ~Falsy(dlcfile_path)
          /\ file.exists
          /\ filename.k = "str"
       THEN [ok |-> TRUE,
             writes |-> <<general_plus_write(
                 <<80, 0, (n \div 65536) % 256, (n \div 256) % 256, n % 256, 2>>
                 \o SubSeq(encoded, 1, IF Len(encoded) < 32 THEN Len(encoded) ELSE 32)
                 \o <<0, 0>>)>>,
             chunks |-> [i \in 1..pieces |->
                 file_write(SubSeq(dlc_content(file), 20 * (i - 1) + 1,
                                   IF 20 * i < n THEN 20 * i ELSE n))]]
       ELSE [ok |-> FALSE, writes |-> <<>>, chunks |-> <<>>]

\* ---------------------------------------------- wait_for_gp_notification
NumPred == 2      \* condition_check objects (their id() is the dict key)

Pred == 1..NumPred

\* A wait that is admitted on any connection.
AdmitsAlways(c) == TRUE

\* wait_for_gp_notification's `if not self.is_connected: raise BleakError`.
CanWait(c) == is_connected(c)

\* wait_for_gp_notification(condition_check, timeout) on the connection
\* stored for address a, up to its await: not connected it raises BleakError;
\* connected it stores (condition_check, future) under id(condition_check)
\* and suspends in asyncio.wait_for.
WaitBegin(p, a, k) ==
    LET c == connected_furbys[a] IN
    /\ proc[p].pc = "idle"
    /\ c # None
    /\ IF CanWait(c)
       THEN /\ fut' = [fut EXCEPT ![p] = [state |-> "pending", data |-> <<>>]]
            /\ one_time_gp_callbacks' =
                   [one_time_gp_callbacks EXCEPT ![c] = Put(one_time_gp_callbacks[c], k, p)]
            /\ proc' = [proc EXCEPT ![p] =
                    [Call("wait", c, a) EXCEPT !.pc = "wait_future", !.pred = k]]
       ELSE /\ proc' = [proc EXCEPT ![p] = Returned("BleakError")]
            /\ UNCHANGED <<fut, one_time_gp_callbacks>>
    /\ UNCHANGED <<cvars, gp_listen_callback, notifying, inbox, callback_called, gvars, nvars>>

\* flash_dlc's loop over the pieces, at its head: done, it returns True;
\* file_write hands the piece to the transport, or returns at once when the
\* connection is not connected, and the loop sleeps.
NextChunk(r) ==
    IF r.todo = <<>> THEN Returned("True")
    ELSE IF is_connected(r.conn)
    THEN [r EXCEPT !.pc = "write_gatt", !.todo = Tail(r.todo),
                   !.out = Append(r.out, Head(r.todo))]
    ELSE [r EXCEPT !.pc = "sleep", !.todo = Tail(r.todo)]

\* The call returns the frame its future was resolved with; inside flash_dlc
\* the frame is the go-ahead and the pieces follow.
ReturnsFrame(p) ==
    IF proc[p].op = "execute"
    THEN NextChunk([proc[p] EXCEPT !.todo = proc[p].rest, !.rest = <<>>, !.pred = None])
    ELSE [Returned("frame") EXCEPT !.data = fut[p].data]

\* The future was resolved before the timeout: wait_for returns its result.
WaitWake(p) ==
    /\ proc[p].pc = "wait_future"
    /\ fut[p].state = "result"
    /\ proc' = [proc EXCEPT ![p] = ReturnsFrame(p)]
    /\ fut' = [fut EXCEPT ![p] = NoFuture]
    /\ UNCHANGED <<cvars, gp_listen_callback, notifying, one_time_gp_callbacks, inbox, callback_called, gvars, nvars>>

\* The timeout expires while the call is suspended.  asyncio.wait_for either
\* cancels the waiting task, which cancels a pending future at once
\* (asyncio.timeout, Python 3.12 on), or only wakes the call up (earlier
\* versions); the call runs again in a later step of the loop.
TimerFires(p) ==
    /\ proc[p].pc = "wait_future"
    /\ proc' = [proc EXCEPT ![p].pc = "wait_expired"]
    /\ \/ fut[p].state = "pending" /\ fut' = [fut EXCEPT ![p].state = "cancelled"]
       \/ UNCHANGED fut
    /\ UNCHANGED <<cvars, gp_listen_callback, notifying, one_time_gp_callbacks, inbox, callback_called, gvars, nvars>>

\* wait_for raised TimeoutError into the call: the except clause deletes the
\* key if the dict has it and re-raises; flash_dlc catches it and returns
\* False.
RaisesTimeout(p) ==
    LET c == proc[p].conn IN
    /\ one_time_gp_callbacks' =
           [one_time_gp_callbacks EXCEPT ![c] = Del(one_time_gp_callbacks[c], proc[p].pred)]
    /\ proc' = [proc EXCEPT ![p] =
            Returned(IF proc[p].op = "execute" THEN "False" ELSE "TimeoutError")]
    /\ fut' = [fut EXCEPT ![p] = NoFuture]

\* The call runs again after its timeout expired.  A future still pending is
\* cancelled and awaited (one more suspension); a cancelled future makes
\* wait_for raise TimeoutError; a future resolved in the meantime is returned
\* (before 3.12) or lost to the cancellation of the task, which raises
\* TimeoutError (3.12 on).
WaitExpiredResume(p) ==
    /\ proc[p].pc = "wait_expired"
    /\ \/ /\ fut[p].state = "pending"
          /\ fut' = [fut EXCEPT ![p].state = "cancelled"]
          /\ UNCHANGED <<proc, one_time_gp_callbacks>>
       \/ /\ fut[p].state = "cancelled"
          /\ RaisesTimeout(p)
       \/ /\ fut[p].state = "result"
          /\ \/ /\ proc' = [proc EXCEPT ![p] = ReturnsFrame(p)]
                /\ fut' = [fut EXCEPT ![p] = NoFuture]
                /\ UNCHANGED one_time_gp_callbacks
             \/ RaisesTimeout(p)
    /\ UNCHANGED <<cvars, gp_listen_callback, notifying, inbox, callback_called, gvars, nvars>>

\* ------------------------------------------------------- execute_action
\* The values a caller passes for the parameter of a one-parameter command.
Val1 ==
    {Absent, Null, StrVal(<<>>), StrVal(<<7>>), StrVal(<<16>>)}
        \cup {IntVal(n) : n \in {-1, 0, 1, 128, 129, 255, 256}}

\* Values that int() or bytes() refuses.
BadVal == {Null, StrVal(<<>>), StrVal(<<16>>), IntVal(-1), IntVal(256)}

\* Bytes given as numbers and as a string of digits.
ByteVal == {IntVal(0), IntVal(255), StrVal(<<2, 0>>)}

\* The dicts of n parameters in which one holds a refused value and the
\* others are absent.
OneBad(n) ==
    {Dict([i \in 1..n |-> IF i = j THEN b ELSE Absent]) : j \in 1..n, b \in BadVal}

\* The values of cmd: no string, the empty string, "14ff", an odd number of
\* digits, a character that is no hexadecimal digit.
HexVal ==
    {Absent, Null, IntVal(5), StrVal(<<>>), StrVal(<<1, 4, 15, 15>>), StrVal(<<1, 4, 15>>),
     StrVal(<<1, 16>>)}

\* The params a caller passes to each direct command.
ParamsFor(cmd) ==
    {NotADict} \cup
    CASE cmd = "antenna" ->
            {Dict(<<r, g, b>>) : r \in ByteVal, g \in ByteVal, b \in ByteVal} \cup OneBad(3)
      [] cmd = "mood_meter" ->
            {Dict(<<x, y, z>>) : x \in {Absent, IntVal(255)}, y \in {Absent, IntVal(255)},
                                 z \in {Absent, IntVal(255)}} \cup OneBad(3)
      [] cmd = "action" ->
            {Dict(<<w, x, y, z>>) : w \in {Absent, IntVal(255)}, x \in {Absent, IntVal(255)},
                                    y \in {Absent, IntVal(255)}, z \in {Absent, IntVal(255)}}
                \cup OneBad(4)
      [] cmd \in {"debug", "dlc_activate"} -> {Dict(<<>>)}
      [] cmd \in {"custom_command", "nordic_custom"} -> {Dict(<<h>>) : h \in HexVal}
      [] cmd = "flash_dlc" ->
            {Dict(<<f, d>>) : f \in {Absent, IntVal(5), StrVal(<<13, 1>>)},
                              d \in {Absent, StrVal(<<13>>)}}
      [] OTHER -> {Dict(<<v>>) : v \in Val1}

\* The names that are no direct command: a category, a button that is not
\* there, a category that is not there, a direct command followed by a
\* button, a path of three components, a name that is not in COMMANDS; and
\* the shortcuts.
OtherNames ==
    {<<"other">>, <<"other", "nope">>, <<"nocat", "giggle">>, <<"antenna", "antennared">>,
     <<"other", "giggle", "x">>, <<"bogus">>}
        \cup {<<"other", b>> : b \in DOMAIN Buttons("other")}

\* The calls of execute_action, [name, params]: the direct commands that
\* encode and write or set the idle loop, with their parameters, and the
\* other names.
Requests ==
    UNION {{[name |-> <<cmd>>, params |-> q] : q \in ParamsFor(cmd)} :
               cmd \in DirectCommands \ {"flash_dlc"}}
        \cup {[name |-> n, params |-> q] :
                  n \in OtherNames,
                  q \in {NotADict, Dict(<<>>), Dict(<<IntVal(255), IntVal(255), IntVal(255)>>)}}

\* The calls of flash_dlc.
FlashRequests == {[name |-> <<"flash_dlc">>, params |-> q] : q \in ParamsFor("flash_dlc")}

\* flash_dlc's file: missing, empty, one piece, two pieces.
Files == {NoFile, FileOf(0), FileOf(20), FileOf(21)}

MaxCmds == 1      \* execute_action calls in progress at once

Executing == {p \in Proc : proc[p].op = "execute"}

\* The cap on keep-alive tasks leaves one for a set_idle call: every
\* connection still to be made or being made may take one before it.
Connecting == {q \in Proc : proc[q].pc = "conn_transport"}

TaskLeft == Cardinality(FreeTasks) > Cardinality(FreeConns) + Cardinality(Connecting)

\* execute_action(fluff_conn, command_name, params) is called on the
\* connection stored for address a: the coroutine exists and has not run.
Request(p, a, req) ==
    /\ proc[p].pc = "idle"
    /\ connected_furbys[a] # None
    /\ Cardinality(Executing) < MaxCmds
    /\ req.name = <<"set_idle">> => TaskLeft
    /\ proc' = [proc EXCEPT ![p] =
            [Call("execute", connected_furbys[a], a) EXCEPT
                !.pc = "called", !.name = req.name, !.params = req.params]]
    /\ UNCHANGED <<cvars, wvars>>

\* The writes of an action function, from the first one still to issue: a
\* write on a connection that is not connected returns at once and the next
\* one follows; a write on a connected one hands the frame to the transport
\* and suspends; after the last one the action returns True (a write called
\* by itself returns None).
RECURSIVE Advance(_)
Advance(r) ==
    IF r.todo = <<>> THEN Returned(IF r.op = "write" THEN "None" ELSE "True")
    ELSE IF is_connected(r.conn)
    THEN [r EXCEPT !.pc = "write_gatt", !.todo = Tail(r.todo),
                   !.out = Append(r.out, Head(r.todo))]
    ELSE Advance([r EXCEPT !.todo = Tail(r.todo)])

\* A flash_dlc that lets the error of its wait escape.
Escapes(exception) == exception

\* flash_dlc's and execute_action's except clauses: the exception is logged
\* and the call returns False.
Caught(exception) == "False"

\* flash_dlc calls wait_for_gp_notification with a new lambda: BleakError
\* (caught: False) when not connected, else the waiter is stored under the
\* lambda's id, which no stored waiter has, and the call suspends.
FlashWait(p, r) ==
    LET c == r.conn IN
    IF CanWait(c)
    THEN \E k \in Pred :
            /\ ~HasKey(one_time_gp_callbacks[c], k)
            /\ fut' = [fut EXCEPT ![p] = [state |-> "pending", data |-> <<>>]]
            /\ one_time_gp_callbacks' =
                   [one_time_gp_callbacks EXCEPT ![c] = Put(one_time_gp_callbacks[c], k, p)]
            /\ proc' = [proc EXCEPT ![p] = [r EXCEPT !.pc = "wait_future", !.pred = k]]
    ELSE /\ proc' = [proc EXCEPT ![p] = Returned(Caught("BleakError"))]
         /\ UNCHANGED <<fut, one_time_gp_callbacks>>

\* What execute_action finds for a call before it touches the connection:
\* the command the name resolves to, the number of recursive calls, and for
\* a command that encodes and writes whether its parameters are accepted
\* (ok) and the writes it will issue; for set_idle, ok and the flag.
Plan(req) ==
    LET r == Resolve(req.name, req.params) IN
    IF ~r.found \/ r.cmd = "flash_dlc"
    THEN [found |-> r.found, cmd |-> r.cmd, depth |-> r.depth, params |-> r.params,
          ok |-> FALSE, flag |-> -1, writes |-> <<>>]
    ELSE IF r.cmd = "set_idle"
    THEN LET idle_flag == IntArgs(r.params, <<-1>>) IN
         [found |-> TRUE, cmd |-> r.cmd, depth |-> r.depth, params |-> r.params,
          ok |-> idle_flag.ok /\ idle_flag.v[1] \in {0, 1},
          flag |-> IF idle_flag.ok THEN idle_flag.v[1] ELSE -1, writes |-> <<>>]
    ELSE [found |-> TRUE, cmd |-> r.cmd, depth |-> r.depth, params |-> r.params,
          ok |-> Encode(r.cmd, r.params).ok, flag |-> -1,
          writes |-> Encode(r.cmd, r.params).writes]

\* Plan and flash_dlc for the calls that are made.
Plans == [req \in Requests \cup FlashRequests |-> Plan(req)]

FlashPlans == [req \in FlashRequests |-> [file \in Files |-> flash_dlc(Plan(req).params, file)]]

\* The arguments of the call of process p.
Req(p) == [name |-> proc[p].name, params |-> proc[p].params]

\* The coroutine of an execute_action call runs up to its first suspension:
\* the name is looked up; set_idle starts or stops the idle loop; flash_dlc
\* reads its file and writes the prepare frame; any other action function
\* builds its frames and issues its writes.  False is returned before any
\* write when the name is not found or the parameters are refused.
ExecuteBegin(p) ==
    LET r == Plans[Req(p)]
        c == proc[p].conn
        run == [proc[p] EXCEPT !.cmd = r.cmd]
    IN
    /\ proc[p].pc = "called"
    /\ IF ~r.found
       THEN /\ proc' = [proc EXCEPT ![p] = Returned("False")]
            /\ UNCHANGED <<task, idle_interval, stopped, fut, one_time_gp_callbacks>>
       ELSE IF r.cmd = "set_idle"
       THEN /\ IF r.ok /\ r.flag = 1
               THEN /\ start_idle(c, is_connected(c))
                    /\ proc' = [proc EXCEPT ![p] = Returned("True")]
                    /\ stopped' = [stopped EXCEPT ![c] = FALSE]
               ELSE IF r.ok /\ r.flag = 0
               THEN /\ stop_idle(p, run, Returned("True"))
                    /\ UNCHANGED idle_interval
               ELSE /\ proc' = [proc EXCEPT ![p] = Returned("False")]
                    /\ UNCHANGED <<task, idle_interval, stopped>>
            /\ UNCHANGED <<fut, one_time_gp_callbacks>>
       ELSE IF r.cmd = "flash_dlc"
       THEN /\ \E file \in Files :
                 LET e == FlashPlans[Req(p)][file] IN
                 IF ~e.ok
                 THEN /\ proc' = [proc EXCEPT ![p] = Returned("False")]
                      /\ UNCHANGED <<fut, one_time_gp_callbacks>>
                 ELSE IF is_connected(c)
                 THEN /\ proc' = [proc EXCEPT ![p] =
                              [run EXCEPT !.pc = "write_gatt", !.out = e.writes,
                                          !.rest = e.chunks]]
                      /\ UNCHANGED <<fut, one_time_gp_callbacks>>
                 ELSE FlashWait(p, [run EXCEPT !.rest = e.chunks])
            /\ UNCHANGED <<task, idle_interval, stopped>>
       ELSE /\ proc' = [proc EXCEPT ![p] =
                    IF r.ok THEN Advance([run EXCEPT !.todo = r.writes])
                    ELSE Returned("False")]
            /\ UNCHANGED <<task, idle_interval, stopped, fut, one_time_gp_callbacks>>
    /\ UNCHANGED <<connected_furbys, address, client, link>>
    /\ UNCHANGED <<gp_listen_callback, notifying, inbox, callback_called, gvars, nvars>>

\* What a write method gives its caller when the transport's write returned
\* (ok) and when it raised: the exception is logged and the method returns
\* None either way.
WriteOutcome(ok) == "None"

\* The transport's write_gatt_char completes or raises.  A write method
\* called by itself returns; called by an action function it returns to the
\* action, which ignores what it returned and goes on: flash_dlc waits for the
\* go-ahead after its prepare frame and sleeps after a piece; any other
\* action issues its next write or returns True.
WriteDone(p, ok) ==
    LET r == proc[p] IN
    /\ r.pc = "write_gatt"
    /\ IF r.cmd = "flash_dlc" /\ r.out[Len(r.out)].chan = "generalplus_write"
       THEN FlashWait(p, r)
       ELSE /\ proc' = [proc EXCEPT ![p] =
                    IF r.op = "write" THEN Returned(WriteOutcome(ok))
                    ELSE IF r.cmd = "flash_dlc" THEN [r EXCEPT !.pc = "sleep"]
                    ELSE Advance(r)]
            /\ UNCHANGED <<fut, one_time_gp_callbacks>>
    /\ UNCHANGED <<cvars, gp_listen_callback, notifying, inbox, callback_called, gvars, nvars>>

\* flash_dlc's asyncio.sleep(0.005) after a piece is over.
SleepDone(p) ==
    /\ proc[p].pc = "sleep"
    /\ proc' = [proc EXCEPT ![p] = NextChunk(proc[p])]
    /\ UNCHANGED <<cvars, wvars>>

\* The channels of the write methods and the data a caller writes.
Channel == {"generalplus_write", "nordic_write", "file_write"}

WriteData == {<<219>>}

\* general_plus_write, nordic_write or file_write called by itself on the
\* connection stored for address a.
WriteBegin(p, a, chan, data) ==
    /\ proc[p].pc = "idle"
    /\ connected_furbys[a] # None
    /\ proc' = [proc EXCEPT ![p] =
            Advance([Call("write", connected_furbys[a], a) EXCEPT
                        !.todo = <<[chan |-> chan, data |-> data]>>])]
    /\ UNCHANGED <<cvars, wvars>>


\* ------------------------------------ pyfluffd: POST /cmd and the gateway
\* Texts are sequences of words; a device address and a count are words of
\* their own.
Word(s) == [w |-> s, n |-> 0]

Uuid(a) == [w |-> "", n |-> a]

Num(n) == [w |-> "#", n |-> n]

Words(strings) == [i \in DOMAIN strings |-> Word(strings[i])]

\* Python's `part in text` for strings.
Contains(text, part) ==
    \E i \in 0..(Len(text) - Len(part)) : SubSeq(text, i + 1, i + Len(part)) = part

\* f"Error: Target Furby {target_uuid} not found or not connected."
NotFoundText(target_uuid) ==
    Words(<<"Error:", "Target", "Furby">>) \o <<Uuid(target_uuid)>>
        \o Words(<<"not", "found", "or", "not", "connected.">>)

\* "Error: No Furbys connected for broadcast."
NoFurbysText == Words(<<"Error:", "No", "Furbys", "connected", "for", "broadcast.">>)

\* "Error: No Furbys actively connected for broadcast."
NoneActiveText ==
    Words(<<"Error:", "No", "Furbys", "actively", "connected", "for", "broadcast.">>)

\* f"Command '{command_name}' execution failed or returned False."
FailedText(command_name) ==
    <<Word("Command")>> \o Words(command_name)
        \o Words(<<"execution", "failed", "or", "returned", "False.">>)

\* What the broadcast says of one result that does not count as a success:
\* f"{target_dev_id}: {str(res_or_exc)}" or f"{target_dev_id}: Action
\* returned False".
FailureText(target_dev_id, res_or_exc) ==
    <<Uuid(target_dev_id)>> \o
        (IF res_or_exc = "False" THEN Words(<<"Action", "returned", "False">>)
         ELSE <<Word(res_or_exc)>>)

RECURSIVE JoinFailures(_, _)
JoinFailures(targets, results) ==
    IF targets = <<>> THEN <<>>
    ELSE (IF Head(results) = "True" THEN <<>> ELSE FailureText(Head(targets), Head(results)))
             \o JoinFailures(Tail(targets), Tail(results))

\* The results of a broadcast that count as successes, and the others.
RECURSIVE CountTrue(_)
CountTrue(results) ==
    IF results = <<>> THEN 0
    ELSE (IF Head(results) = "True" THEN 1 ELSE 0) + CountTrue(Tail(results))

\* summary_message of a broadcast.
SummaryText(command_name, targets, results) ==
    LET success_count == CountTrue(results)
        failed == Len(results) - success_count
    IN <<Word("Broadcast")>> \o Words(command_name)
           \o <<Num(success_count), Word("successful,"), Num(failed), Word("failed.")>>
           \o (IF failed > 0
               THEN <<Word("Failures:")>> \o JoinFailures(targets, results)
               ELSE <<>>)

\* A broadcast that succeeds only when no device failed.
AllSucceeded(success_count, failures, tasks) == failures = 0 /\ tasks > 0

\* overall_success = success_count > 0 or (not failures and len(tasks) > 0)
overall_success(success_count, failures, tasks) ==
    success_count > 0 \/ (failures = 0 /\ tasks > 0)

\* do_POST's status: 200 on success, else 400 if "Target Furby not found" in
\* str(response_data) or "No Furbys connected" in str(response_data), else
\* 500.
status_code(success, response_data) ==
    IF success THEN 200
    ELSE IF \/ Contains(response_data, Words(<<"Target", "Furby", "not", "found">>))
            \/ Contains(response_data, Words(<<"No", "Furbys", "connected">>))
    THEN 400
    ELSE 500

\* The commands that POST /cmd requests name, and their targets: a device
\* address, or None for a broadcast.
CmdRequests ==
    {[name |-> <<"antenna">>, params |-> Dict(<<IntVal(255), IntVal(0), IntVal(255)>>)],
     [name |-> <<"flash_dlc">>, params |-> Dict(<<StrVal(<<13, 1>>), StrVal(<<13>>)>>)],
     [name |-> <<"bogus">>, params |-> Dict(<<>>)]}

Targets == Furby \cup {None}

\* No coroutine is in flight and the handler is not waiting: the next
\* request is read.
Quiet ==
    /\ gateway.pc # "waiting"
    /\ dispatch.pc = "none"
    /\ \A p \in Proc : proc[p].pc = "idle"

\* do_POST for /cmd/<name> with params and target in its body:
\* _execute_command_async is handed to the loop with
\* run_coroutine_threadsafe and the handler waits in future.result.
PostCmd(req, target_uuid) ==
    /\ Quiet
    /\ dispatch' = [NoDispatch EXCEPT !.pc = "called", !.name = req.name,
                                      !.params = req.params, !.target = target_uuid]
    /\ gateway' = [NoRequest EXCEPT !.pc = "waiting", !.call = "cmd"]
    /\ UNCHANGED <<cvars, proc>>
    /\ UNCHANGED <<gp_listen_callback, notifying, one_time_gp_callbacks, fut, inbox, callback_called, nvars>>

\* The coroutine returns (success, response_data).
Return(success, response_data) ==
    [dispatch EXCEPT !.pc = "returned", !.success = success, !.response_data = response_data]

\* A dispatch that acts on every entry of the registry, connected or not.
InRegistry(uuid) == connected_furbys[uuid] # None

\* `target_uuid in connected_furbys and connected_furbys[target_uuid]
\* .is_connected`, and the broadcast's `if fluff_conn.is_connected`.
Targetable(uuid) ==
    connected_furbys[uuid] # None /\ is_connected(connected_furbys[uuid])

\* The device addresses in the order of connected_furbys.items() (the
\* addresses in increasing order stand for the order of insertion).
Items == [i \in 1..NumFurby |-> i]

\* The entries a broadcast attempts: those whose connection is connected.
ActiveTargets ==
    SelectSeq(Items, LAMBDA a : Targetable(a))

\* The execute_action coroutine of device a, started only for the first
\* device of the broadcast.
AttemptInTurn(a) ==
    [Call("execute", connected_furbys[a], a) EXCEPT
        !.pc = IF dispatch.target # None \/ a = ActiveTargets[1]
               THEN "called" ELSE "queued",
        !.name = dispatch.name, !.params = dispatch.params]

\* The execute_action coroutine that the dispatch creates for target a.
Attempt(a) ==
    [Call("execute", connected_furbys[a], a) EXCEPT
        !.pc = "called", !.name = dispatch.name, !.params = dispatch.params]

\* _execute_command_async runs up to its first suspension.  Targeted: the
\* entry must be there and connected, then execute_action is awaited.
\* Broadcast: one execute_action per connected entry, all handed to
\* asyncio.gather.  Without an entry to act on it returns at once.
DispatchBegin ==
    LET target_uuid == dispatch.target
        active_targets == ActiveTargets
    IN
    /\ dispatch.pc = "called"
    /\ IF target_uuid # None
       THEN IF Targetable(target_uuid)
            THEN /\ proc[1].pc = "idle"
                 /\ proc' = [proc EXCEPT ![1] = Attempt(target_uuid)]
                 /\ dispatch' = [dispatch EXCEPT !.pc = "await",
                        !.active_targets = <<target_uuid>>, !.tasks = <<1>>]
            ELSE /\ dispatch' = Return(FALSE, NotFoundText(target_uuid))
                 /\ UNCHANGED proc
       ELSE IF \A a \in Furby : connected_furbys[a] = None
            THEN /\ dispatch' = Return(FALSE, NoFurbysText)
                 /\ UNCHANGED proc
            ELSE IF active_targets = <<>>
            THEN /\ dispatch' = Return(FALSE, NoneActiveText)
                 /\ UNCHANGED proc
            ELSE /\ Len(active_targets) <= NumProc
                 /\ \A i \in DOMAIN active_targets : proc[i].pc = "idle"
                 /\ proc' = [p \in Proc |->
                        IF p \in DOMAIN active_targets THEN Attempt(active_targets[p])
                        ELSE proc[p]]
                 /\ dispatch' = [dispatch EXCEPT !.pc = "gather",
                        !.active_targets = active_targets,
                        !.tasks = [i \in DOMAIN active_targets |-> i]]
    /\ UNCHANGED <<cvars, gateway>>
    /\ UNCHANGED <<gp_listen_callback, notifying, one_time_gp_callbacks, fut, inbox, callback_called, nvars>>

\* The execute_action calls of the dispatch and those that have ended.
Attempts == {dispatch.tasks[i] : i \in DOMAIN dispatch.tasks}

Ended(p) == proc[p].op = "none"

\* What the awaited execute_action calls gave, in the order of the targets.
Results == [i \in DOMAIN dispatch.tasks |-> proc[dispatch.tasks[i]].result]

\* The await of the dispatch is over: execute_action has returned
\* (targeted), or every execute_action of the gather has ended (broadcast);
\* the results are counted and the coroutine returns.
DispatchCollect ==
    LET results == Results
        success_count == CountTrue(results)
    IN
    /\ dispatch.pc \in {"await", "gather"}
    /\ \A p \in Attempts : Ended(p)
    /\ dispatch' =
          IF dispatch.pc = "await"
          THEN IF results[1] = "True" THEN Return(TRUE, <<Word("True")>>)
               ELSE IF results[1] = "False" THEN Return(FALSE, FailedText(dispatch.name))
               ELSE Return(FALSE, <<Word("Error"), Word(results[1])>>)
          ELSE Return(overall_success(success_count, Len(results) - success_count, Len(results)),
                      SummaryText(dispatch.name, dispatch.active_targets, results))
    /\ UNCHANGED <<cvars, proc, gateway>>
    /\ UNCHANGED <<gp_listen_callback, notifying, one_time_gp_callbacks, fut, inbox, callback_called, nvars>>

\* The handler's future.result(timeout=45.0) returns what the coroutine
\* returned and the handler answers.
GatewayAnswersCmd ==
    /\ gateway.pc = "waiting"
    /\ gateway.call = "cmd"
    /\ dispatch.pc = "returned"
    /\ gateway' = [gateway EXCEPT !.pc = "answered",
                       !.status = status_code(dispatch.success, dispatch.response_data)]
    /\ dispatch' = NoDispatch
    /\ UNCHANGED <<cvars, proc>>
    /\ UNCHANGED <<gp_listen_callback, notifying, one_time_gp_callbacks, fut, inbox, callback_called, nvars>>

\* The coroutine of a request that was answered meanwhile returns: nobody
\* reads its result.
DispatchDropped ==
    /\ dispatch.pc = "returned"
    /\ ~(gateway.pc = "waiting" /\ gateway.call = "cmd")
    /\ dispatch' = NoDispatch
    /\ UNCHANGED <<cvars, proc, gateway>>
    /\ UNCHANGED <<gp_listen_callback, notifying, one_time_gp_callbacks, fut, inbox, callback_called, nvars>>

\* do_GET for /connect/<address>: _connect_async was handed to the loop and
\* the handler waits in future.result(timeout=15.0) for coroutine p.
GatewayWaitsConnect(p) ==
    /\ gateway.pc # "waiting"
    /\ dispatch.pc = "none"
    /\ proc[p].op = "connect_async"
    /\ gateway' = [NoRequest EXCEPT !.pc = "waiting", !.call = "connect", !.p = p]
    /\ UNCHANGED <<cvars, proc, dispatch>>
    /\ UNCHANGED <<gp_listen_callback, notifying, one_time_gp_callbacks, fut, inbox, callback_called, nvars>>

\* _connect_async has ended: 200 when it returned success, 500 when it
\* returned failure or raised.
GatewayAnswersConnect ==
    /\ gateway.pc = "waiting"
    /\ gateway.call = "connect"
    /\ Ended(gateway.p)
    /\ gateway' = [gateway EXCEPT !.pc = "answered",
           !.status = IF proc[gateway.p].result \in {"connected", "already_connected"}
                      THEN 200 ELSE 500]
    /\ UNCHANGED <<cvars, proc, dispatch>>
    /\ UNCHANGED <<gp_listen_callback, notifying, one_time_gp_callbacks, fut, inbox, callback_called, nvars>>

\* future.result(timeout=...) raises TimeoutError in the handler thread: the
\* handler answers 500.  The concurrent.futures future is not cancelled and
\* the coroutine stays with the loop.
GatewayTimesOut ==
    /\ gateway.pc = "waiting"
    /\ gateway' = [gateway EXCEPT !.pc = "answered", !.status = 500, !.timed_out = TRUE]
    /\ UNCHANGED <<cvars, proc, dispatch>>
    /\ UNCHANGED <<gp_listen_callback, notifying, one_time_gp_callbacks, fut, inbox, callback_called, nvars>>

\* ------------------------------------------------------- specifications
\* The values of set_idle's parameter: stop, start, and one that is neither.
IdleFlag == {0, 1, 2}

Next ==
    \/ \E p \in Proc, a \in Addr : ConnectAsync(p, a)
    \/ \E p \in Proc, a \in Addr : DisconnectAsync(p, a)
    \/ \E p \in Proc : ConnTransportDone(p)
    \/ \E p \in Proc : DiscTransportDone(p)
    \/ \E p \in Proc : StopIdleResume(p)
    \/ \E p \in Proc, a \in Addr, f \in IdleFlag : CmdSetIdle(p, a, f)
    \/ \E t \in Task : KeepAliveIterate(t)
    \/ \E t \in Task, ok \in BOOLEAN : KeepAliveWritten(t, ok)
    \/ \E t \in Task : KeepAliveCancelled(t)
    \/ \E c \in Conn : LinkDrop(c)

Spec == Init /\ [][Next]_vars

\* The notification side: connections are made and lost, notifications are
\* started and stopped, frames arrive and calls wait for them.  The
\* keep-alive loop and the waiters share no state, so it is left out here.
NextWait ==
    \/ \E p \in Proc, a \in Addr : ConnectAsync(p, a)
    \/ \E p \in Proc : ConnTransportDone(p)
    \/ \E c \in Conn : LinkDrop(c)
    \/ \E c \in Conn, cb \in Callback : StartGpNotifications(c, cb)
    \/ \E c \in Conn : StopGpNotifications(c)
    \/ \E c \in Conn, d \in Frame : FrameArrives(c, d)
    \/ HandlerRuns
    \/ \E p \in Proc, a \in Addr, k \in Pred : WaitBegin(p, a, k)
    \/ \E p \in Proc : WaitWake(p)
    \/ \E p \in Proc : TimerFires(p)
    \/ \E p \in Proc : WaitExpiredResume(p)

SpecWait == Init /\ [][NextWait]_vars

\* The same while the link stays up (a lost link only stops the frames).
NextWaitUp ==
    \/ \E p \in Proc, a \in Addr : ConnectAsync(p, a)
    \/ \E p \in Proc : ConnTransportDone(p)
    \/ \E c \in Conn, cb \in Callback : StartGpNotifications(c, cb)
    \/ \E c \in Conn : StopGpNotifications(c)
    \/ \E c \in Conn, d \in Frame : FrameArrives(c, d)
    \/ HandlerRuns
    \/ \E p \in Proc, a \in Addr, k \in Pred : WaitBegin(p, a, k)
    \/ \E p \in Proc : WaitWake(p)
    \/ \E p \in Proc : TimerFires(p)
    \/ \E p \in Proc : WaitExpiredResume(p)

\* The loop runs every ready coroutine and every timer that is due: a
\* timeout expires, and a call that was woken up runs again.
FairSpecWait ==
    /\ Init /\ [][NextWaitUp]_vars
    /\ \A p \in Proc : WF_vars(WaitWake(p))
    /\ \A p \in Proc : WF_vars(TimerFires(p))
    /\ \A p \in Proc : WF_vars(WaitExpiredResume(p))

\* The write methods called by themselves on connections made and lost.
NextWrite ==
    \/ \E p \in Proc, a \in Addr : ConnectAsync(p, a)
    \/ \E p \in Proc : ConnTransportDone(p)
    \/ \E c \in Conn : LinkDrop(c)
    \/ \E p \in Proc, a \in Addr, chan \in Channel, data \in WriteData :
           WriteBegin(p, a, chan, data)
    \/ \E p \in Proc, ok \in BOOLEAN : WriteDone(p, ok)

SpecWrite == Init /\ [][NextWrite]_vars

\* The commands that encode and write: connections are made and lost,
\* execute_action is called, the transport completes writes, a cancelled
\* keep-alive task finishes (set_idle awaits it).
NextCmd ==
    \/ \E p \in Proc, a \in Addr : ConnectAsync(p, a)
    \/ \E p \in Proc : ConnTransportDone(p)
    \/ \E c \in Conn : LinkDrop(c)
    \/ \E p \in Proc, a \in Addr, req \in Requests : Request(p, a, req)
    \/ \E p \in Proc : ExecuteBegin(p)
    \/ \E p \in Proc, ok \in BOOLEAN : WriteDone(p, ok)
    \/ \E p \in Proc : StopIdleResume(p)
    \/ \E t \in Task : KeepAliveCancelled(t)

SpecCmd == Init /\ [][NextCmd]_vars

\* The calls followed from their beginning to their end: one of every kind
\* of suspension (transport writes, the sleeps and the wait of flash_dlc,
\* the await of stop_idle) and of every way to return without one.
RunRequests ==
    {[name |-> <<"flash_dlc">>, params |-> Dict(<<StrVal(<<13, 1>>), StrVal(<<13>>)>>)],
     [name |-> <<"flash_dlc">>, params |-> NotADict],
     [name |-> <<"set_name">>, params |-> Dict(<<IntVal(1)>>)],
     [name |-> <<"action">>, params |-> NotADict],
     [name |-> <<"set_idle">>, params |-> Dict(<<IntVal(1)>>)],
     [name |-> <<"set_idle">>, params |-> Dict(<<IntVal(0)>>)],
     [name |-> <<"other", "giggle">>, params |-> NotADict],
     [name |-> <<"bogus">>, params |-> Dict(<<>>)]}

\* The coroutine that makes the calls (the others connect meanwhile).
Caller == CHOOSE p \in Proc : \A q \in Proc : p <= q

\* A call from its beginning to its end: the transport completes its writes,
\* notifications are started and frames arrive (flash_dlc waits for one),
\* timeouts expire, a cancelled keep-alive task finishes.
NextRun ==
    \/ \E p \in Proc, a \in Addr : ConnectAsync(p, a)
    \/ \E p \in Proc : ConnTransportDone(p)
    \/ \E c \in Conn : LinkDrop(c)
    \/ \E a \in Addr, req \in RunRequests : Request(Caller, a, req)
    \/ \E p \in Proc : ExecuteBegin(p)
    \/ \E p \in Proc, ok \in BOOLEAN : WriteDone(p, ok)
    \/ \E p \in Proc : SleepDone(p)
    \/ \E p \in Proc : StopIdleResume(p)
    \/ \E t \in Task : KeepAliveCancelled(t)
    \/ \E c \in Conn, cb \in Callback : StartGpNotifications(c, cb)
    \/ \E c \in Conn, d \in Frame : FrameArrives(c, d)
    \/ HandlerRuns
    \/ \E p \in Proc : WaitWake(p)
    \/ \E p \in Proc : TimerFires(p)
    \/ \E p \in Proc : WaitExpiredResume(p)

\* The loop runs every coroutine and task that is ready and every timer that
\* is due, and the transport ends every write it was given, with or without
\* an error.
FairSpecRun ==
    /\ Init /\ [][NextRun]_vars
    /\ \A p \in Proc : WF_vars(ExecuteBegin(p))
    /\ \A p \in Proc : WF_vars(\E ok \in BOOLEAN : WriteDone(p, ok))
    /\ \A p \in Proc : WF_vars(SleepDone(p))
    /\ \A p \in Proc : WF_vars(StopIdleResume(p))
    /\ \A t \in Task : WF_vars(KeepAliveCancelled(t))
    /\ \A p \in Proc : WF_vars(WaitWake(p))
    /\ \A p \in Proc : WF_vars(TimerFires(p))
    /\ \A p \in Proc : WF_vars(WaitExpiredResume(p))

\* The gateway: devices are connected one request at a time, POST /cmd
\* requests are dispatched to one device or to all, the handler answers or
\* gives up waiting; links drop, the transport ends writes, notifications
\* arrive and waits expire.
NextDispatch ==
    \/ \E p \in Proc, a \in Furby : Quiet /\ ConnectAsync(p, a)
    \/ \E p \in Proc : ConnTransportDone(p)
    \/ \E c \in Conn : LinkDrop(c)
    \/ \E p \in Proc : GatewayWaitsConnect(p)
    \/ GatewayAnswersConnect
    \/ \E req \in CmdRequests, target_uuid \in Targets : PostCmd(req, target_uuid)
    \/ DispatchBegin
    \/ \E p \in Proc : ExecuteBegin(p)
    \/ \E p \in Proc, ok \in BOOLEAN : WriteDone(p, ok)
    \/ \E p \in Proc : SleepDone(p)
    \/ \E c \in Conn, cb \in Callback : StartGpNotifications(c, cb)
    \/ \E c \in Conn, d \in Frame : FrameArrives(c, d)
    \/ HandlerRuns
    \/ \E p \in Proc : WaitWake(p)
    \/ \E p \in Proc : TimerFires(p)
    \/ \E p \in Proc : WaitExpiredResume(p)
    \/ DispatchCollect
    \/ GatewayAnswersCmd
    \/ DispatchDropped
    \/ GatewayTimesOut

SpecDispatch == Init /\ [][NextDispatch]_vars

\* The next step of the execute_action call p, whatever it is waiting for.
OwnStep(p) ==
    \/ ExecuteBegin(p)
    \/ \E ok \in BOOLEAN : WriteDone(p, ok)
    \/ SleepDone(p)
    \/ WaitWake(p)
    \/ TimerFires(p)
    \/ WaitExpiredResume(p)

\* Broadcasts only, followed to their end: devices are connected one after
\* the other, a broadcast is dispatched, its execute_action calls run side by
\* side; a device that answers sends the "ready to receive" frame, one that
\* does not lets the wait run out.
NextFanOut ==
    \/ \E a \in Furby : Quiet /\ ConnectAsync(Caller, a)
    \/ \E p \in Proc : ConnTransportDone(p)
    \/ \E c \in Conn : LinkDrop(c)
    \/ \E req \in CmdRequests : PostCmd(req, None)
    \/ DispatchBegin
    \/ \E p \in Proc : ExecuteBegin(p)
    \/ \E p \in Proc, ok \in BOOLEAN : WriteDone(p, ok)
    \/ \E p \in Proc : SleepDone(p)
    \/ \E c \in Conn, cb \in Callback : StartGpNotifications(c, cb)
    \/ \E c \in Conn : FrameArrives(c, <<36, 2>>)
    \/ HandlerRuns
    \/ \E p \in Proc : WaitWake(p)
    \/ \E p \in Proc : TimerFires(p)
    \/ \E p \in Proc : WaitExpiredResume(p)
    \/ DispatchCollect
    \/ GatewayAnswersCmd

\* The loop runs every coroutine that is ready and every timer that is due,
\* and the transport ends every write it was given.
FairSpecFanOut ==
    /\ Init /\ [][NextFanOut]_vars
    /\ WF_vars(DispatchBegin)
    /\ WF_vars(DispatchCollect)
    /\ \A p \in Proc : WF_vars(OwnStep(p))

\* The server as run_server starts it: the handler thread serves requests
\* and hands coroutines to server_event_loop.  A handler's wait in
\* future.result(timeout=...) ends, by the result or by the timeout; the
\* steps of the loop are those of a loop that is running, and run_server
\* calls neither run_forever nor run_until_complete on the one it creates,
\* so nothing obliges them to happen.
NextServer ==
    \/ \E a \in Furby : Quiet /\ ConnectAsync(Caller, a)
    \/ \E p \in Proc : ConnTransportDone(p)
    \/ \E c \in Conn : LinkDrop(c)
    \/ \E p \in Proc : GatewayWaitsConnect(p)
    \/ GatewayAnswersConnect
    \/ \E req \in CmdRequests, target_uuid \in Targets : PostCmd(req, target_uuid)
    \/ DispatchBegin
    \/ \E p \in Proc : ExecuteBegin(p)
    \/ \E p \in Proc, ok \in BOOLEAN : WriteDone(p, ok)
    \/ \E p \in Proc : SleepDone(p)
    \/ \E c \in Conn, cb \in Callback : StartGpNotifications(c, cb)
    \/ \E c \in Conn : FrameArrives(c, <<36, 2>>)
    \/ HandlerRuns
    \/ \E p \in Proc : WaitWake(p)
    \/ \E p \in Proc : TimerFires(p)
    \/ \E p \in Proc : WaitExpiredResume(p)
    \/ DispatchCollect
    \/ GatewayAnswersCmd
    \/ DispatchDropped
    \/ GatewayTimesOut

FairSpecServer ==
    /\ Init /\ [][NextServer]_vars
    /\ WF_vars(GatewayAnswersConnect \/ GatewayAnswersCmd \/ GatewayTimesOut)

\* The connection object used directly, as pyfluff_con's main() does: objects
\* are constructed, connect() is called and called again, the link is lost,
\* idle mode is started and the keep-alive loop runs.
NextConnect ==
    \/ \E a \in Addr : Construct(a)
    \/ \E p \in Proc, c \in Conn : Connect(p, c)
    \/ \E p \in Proc : ConnectEnds(p)
    \/ \E c \in Conn : LinkDrop(c)
    \/ \E c \in Conn : StartIdle(c)
    \/ \E t \in Task : KeepAliveIterate(t)
    \/ \E t \in Task, ok \in BOOLEAN : KeepAliveWritten(t, ok)

SpecConnect == Init /\ [][NextConnect]_vars

\* The same with an event loop that runs the keep-alive task: it wakes the
\* task when its sleep is over and the transport ends every write.
FairSpecIdle ==
    /\ Init /\ [][NextConnect]_vars
    /\ \A t \in Task : WF_vars(KeepAliveIterate(t))
    /\ \A t \in Task : WF_vars(\E ok \in BOOLEAN : KeepAliveWritten(t, ok))

\* A connection's life in the registry: it is connected, notifications are
\* started on it, idle mode runs, the link may drop, and it is disconnected
\* and removed.
NextTeardown ==
    \/ \E a \in Addr : ConnectAsync(Caller, a)
    \/ \E p \in Proc : ConnTransportDone(p)
    \/ \E c \in Conn, cb \in Callback : StartGpNotifications(c, cb)
    \/ \E c \in Conn : StopGpNotifications(c)
    \/ \E c \in Conn : LinkDrop(c)
    \/ \E a \in Addr : DisconnectAsync(Caller, a)
    \/ \E p \in Proc : StopIdleResume(p)
    \/ \E p \in Proc : DiscTransportDone(p)
    \/ \E t \in Task : KeepAliveIterate(t)
    \/ \E t \in Task, ok \in BOOLEAN : KeepAliveWritten(t, ok)
    \/ \E t \in Task : KeepAliveCancelled(t)

SpecTeardown == Init /\ [][NextTeardown]_vars

\* Connect requests only: a handler waits for its _connect_async, gets the
\* answer or times out and leaves the coroutine with the loop, and the next
\* request's coroutine runs beside it.
NextReconnect ==
    \/ \E p \in Proc, a \in Addr : ConnectAsync(p, a)
    \/ \E p \in Proc : GatewayWaitsConnect(p)
    \/ GatewayAnswersConnect
    \/ GatewayTimesOut
    \/ \E p \in Proc : ConnTransportDone(p)
    \/ \E t \in Task : KeepAliveIterate(t)
    \/ \E t \in Task, ok \in BOOLEAN : KeepAliveWritten(t, ok)

SpecReconnect == Init /\ [][NextReconnect]_vars

\* The Nordic listen channel beside the waiters: a connection is made,
\* Nordic notifications are started and stopped, Nordic frames arrive, and
\* calls wait for a GeneralPlus notification.
NextNordic ==
    \/ \E a \in Addr : ConnectAsync(Caller, a)
    \/ \E p \in Proc : ConnTransportDone(p)
    \/ \E c \in Conn : LinkDrop(c)
    \/ \E c \in Conn, cb \in Callback : StartNordicNotifications(c, cb)
    \/ \E c \in Conn : StopNordicNotifications(c)
    \/ \E c \in Conn, d \in Frame : NordicFrameArrives(c, d)
    \/ HandlerRuns
    \/ \E p \in Proc, a \in Addr, k \in Pred : WaitBegin(p, a, k)
    \/ \E p \in Proc : WaitWake(p)
    \/ \E p \in Proc : TimerFires(p)
    \/ \E p \in Proc : WaitExpiredResume(p)

SpecNordic == Init /\ [][NextNordic]_vars

\* ================================================================ claims

\* C1 (as stated): in every reachable state at most one keep-alive loop task
\* is live for a connection, whatever the interleaving of start_idle,
\* stop_idle, set_idle, connect and disconnect.
AtMostOneIdleLoop ==
    \A c \in Conn : Cardinality(LiveTasks(c)) <= 1

\* A step in which keep-alive task t hands an idle frame to the transport.
IdleWrite(t) == task[t].pc # "write" /\ task'[t].pc = "write"

\* C2 (as stated): once a stop_idle on a connection has returned, the
\* keep-alive loop writes no idle frame for it until start_idle is called again.
NoIdleFrameAfterStop ==
    [][\A t \in Task : IdleWrite(t) => ~stopped[task[t].conn]]_vars

\* C3 (as stated): disconnect() invokes the transport disconnect only when no
\* keep-alive task of the connection is live, and while the transport
\* disconnect is in progress no keep-alive write is started or in flight.
DisconnectAfterIdleStopped ==
    [][\A p \in Proc :
          proc'[p].pc = "disc_transport" =>
              /\ proc[p].pc # "disc_transport" =>
                    \A t \in Task : task'[t].conn = proc'[p].conn => task'[t].pc \notin {"new", "write", "sleep"}
              /\ \A t \in Task : task'[t].conn = proc'[p].conn => task'[t].pc # "write"
      ]_vars

\* The step in which coroutine p's transport connect fails.
ConnectFails(p) ==
    proc[p].pc = "conn_transport" /\ proc'[p].pc = "idle" /\ proc'[p].result = "connect_failed"

ConnectReportsSuccess ==
    [][\A p \in Proc :
          (proc[p].pc = "conn_transport" /\ proc'[p].pc = "idle" /\ link'[proc[p].conn]) =>
              /\ proc'[p].result = "connected"
              /\ connected_furbys'[proc[p].addr] = proc[p].conn
              /\ \E t \in Task : task'[t].conn = proc[p].conn /\ task'[t].pc = "new"
      ]_vars

\* C6: a connectDevice for an address whose entry is connected returns
\* success and changes nothing: no new connection object, no transport
\* connect, the same entry, client, link and keep-alive task.
ConnectIsIdempotent ==
    [][\A p \in Proc, a \in Addr :
          (/\ connected_furbys[a] # None
           /\ is_connected(connected_furbys[a])
           /\ ConnectAsync(p, a)) =>
              /\ proc'[p].pc = "idle"
              /\ proc'[p].result = "already_connected"
              /\ UNCHANGED <<cvars, wvars>>
      ]_vars

\* C6 witness: a connect has returned "already connected" for an entry that
\* is connected and has its keep-alive loop.
ConnectedTwice ==
    \E p \in Proc, a \in Addr :
        /\ proc[p].result = "already_connected"
        /\ connected_furbys[a] # None
        /\ is_connected(connected_furbys[a])
        /\ LiveTasks(connected_furbys[a]) # {}

\* The step in which _disconnect_async returns for an address that had an
\* entry whose connection is c.
DisconnectDone(p, a, c) ==
    /\ proc'[p].pc = "idle"
    /\ proc'[p].result = "disconnected"
    /\ \/ proc[p].op = "disconnect_async" /\ proc[p].addr = a /\ proc[p].conn = c
       \/ proc[p].pc = "idle" /\ connected_furbys[a] = c /\ DisconnectAsync(p, a)

\* C7 (as stated): when disconnectDevice returns for an address that had an
\* entry, the entry is gone, the connection is disconnected and none of its
\* keep-alive tasks is live; for an address without entry it reports
\* not-found and changes nothing.
DisconnectTearsDown ==
    [][\A p \in Proc, a \in Addr :
          /\ \A c \in Conn :
                DisconnectDone(p, a, c) =>
                    /\ connected_furbys'[a] = None
                    /\ ~(client'[c] # "None" /\ link'[c])
                    /\ \A t \in Task : task'[t].conn = c => task'[t].pc \notin {"new", "write", "sleep"}
          /\ (connected_furbys[a] = None /\ DisconnectAsync(p, a)) =>
                    /\ proc'[p].result = "not_found"
                    /\ UNCHANGED <<cvars, wvars>>
      ]_vars

\* A call suspended in wait_for_gp_notification whose timeout has not expired
\* and whose future is pending.
Waiting(p) == proc[p].pc = "wait_future" /\ fut[p].state = "pending"

\* p is the only call with a pending future on its connection.
OnlyWaiter(p) ==
    \A q \in Proc \ {p} :
        ~(proc[q].op = "wait" /\ proc[q].conn = proc[p].conn /\ fut[q].state = "pending")

\* C8 (as stated): a wait that was pending when a frame came in stays pending
\* when the frame does not satisfy its predicate and is resolved with the
\* bytes of the frame when it does; a wait started later with the same
\* predicate starts pending, whatever frames came before.
WaitResolvesOnFirstMatch ==
    [][/\ HandlerRuns =>
              \A p \in Proc :
                  (Waiting(p) /\ p \in Head(inbox).waiting) =>
                      IF condition_check(Head(inbox).data)
                      THEN OnlyWaiter(p) =>
                               fut'[p] = [state |-> "result", data |-> Head(inbox).data]
                      ELSE fut'[p] = fut[p]
       /\ \A p \in Proc, a \in Addr, k \in Pred :
              (WaitBegin(p, a, k) /\ proc'[p].pc = "wait_future") =>
                  fut'[p] = [state |-> "pending", data |-> <<>>]
      ]_vars

\* The step in which a wait_for_gp_notification call of p returns or raises.
WaitEnds(p) == proc[p].op = "wait" /\ proc'[p].pc = "idle"

\* C9: every wait_for_gp_notification call that suspended completes, with
\* one outcome: the bytes its future was resolved with, or TimeoutError after
\* its timeout expired; a future that was resolved or cancelled is never
\* fulfilled again, whichever of frame and timeout comes first.
WaitCompletesOnce ==
    /\ \A p \in Proc :
          (proc[p].pc = "wait_future") ~>
              (proc[p].pc = "idle" /\ proc[p].result \in {"frame", "TimeoutError"})
    /\ [][\A p \in Proc :
             /\ fut[p].state \in {"result", "cancelled"} => fut'[p] \in {fut[p], NoFuture}
             /\ WaitEnds(p) =>
                   \/ /\ proc'[p].result = "frame"
                      /\ fut[p].state = "result"
                      /\ proc'[p].data = fut[p].data
                   \/ /\ proc'[p].result = "TimeoutError"
                      /\ proc[p].pc = "wait_expired"
                      /\ proc'[p].data = <<>>
         ]_vars

\* C9 witness: the matching frame and the timeout have both come before the
\* call ran again.
FrameRacesTimeout ==
    \E p \in Proc : proc[p].pc = "wait_expired" /\ fut[p].state = "result"

\* The futures of the waiters in c's dict.
WaiterFutures(c) ==
    {one_time_gp_callbacks[c][i].fut : i \in DOMAIN one_time_gp_callbacks[c]}

\* C10 (as stated): every waiter in a connection's dict has a future that is
\* still pending, and belongs to a call that has not returned.
WaitersAllPending ==
    \A c \in Conn : \A p \in WaiterFutures(c) :
        fut[p].state = "pending" /\ proc[p].op = "wait"

\* C10 (amended): every waiter in a connection's dict belongs to a call still
\* in progress on that connection, under that call's key, and its future is
\* never resolved: it is pending, or it was cancelled by the call's timeout
\* and the call, woken up, is about to delete it.
WaitersNeverResolved ==
    \A c \in Conn : \A i \in DOMAIN one_time_gp_callbacks[c] :
        LET e == one_time_gp_callbacks[c][i]
            p == e.fut
        IN /\ proc[p].op = "wait"
           /\ proc[p].conn = c
           /\ proc[p].pred = e.id
           /\ fut[p].state \in {"pending", "cancelled"}
           /\ fut[p].state = "cancelled" => proc[p].pc = "wait_expired"

\* C10 witness: a waiter whose future the timeout has cancelled is still in
\* the dict.
CancelledWaiterInSet ==
    \E c \in Conn : \E p \in WaiterFutures(c) : fut[p].state = "cancelled"

\* The futures the handler step resolves.
Resolved == {p \in Proc : fut[p].state = "pending" /\ fut'[p].state = "result"}

\* C11 (as stated): a handled frame is tested against the pending waiters of
\* its connection whether or not a persistent callback is registered: when a
\* pending waiter's predicate accepts it a waiter is resolved with it, and
\* the persistent callback is called only for a frame no waiter accepts.
FrameTestedAgainstWaitersFirst ==
    [][HandlerRuns =>
           LET m == Head(inbox) IN
           /\ Matching(m.conn, m.data) # {} =>
                  \E p \in Resolved : fut'[p].data = m.data
           /\ callback_called' => Matching(m.conn, m.data) = {}
      ]_vars

\* C12: a handled frame resolves at most one waiter, the first in the dict
\* that accepts it; every other future is left as it was; and a frame that
\* resolves a waiter is not passed to the persistent callback.
FrameResolvesAtMostOne ==
    [][HandlerRuns =>
           LET m == Head(inbox) IN
           /\ Cardinality(Resolved) <= 1
           /\ \A p \in Proc : fut'[p] # fut[p] =>
                  /\ p \in Resolved
                  /\ p = one_time_gp_callbacks[m.conn][FirstMatch(m.conn, m.data)].fut
                  /\ fut'[p].data = m.data
                  /\ ~callback_called'
      ]_vars

\* C12 witness: with a persistent callback registered, one waiter of a
\* connection holds the frame and another one of the same connection is
\* still pending in the dict; the callback was not called.
OneResolvedOtherPending ==
    \E p \in Proc, q \in Proc :
        /\ p # q
        /\ proc[p].op = "wait" /\ proc[q].op = "wait"
        /\ proc[p].conn = proc[q].conn
        /\ gp_listen_callback[proc[p].conn] # "None"
        /\ fut[p] = [state |-> "result", data |-> <<36, 2>>]
        /\ fut[q].state = "pending"
        /\ q \in WaiterFutures(proc[q].conn)
        /\ ~callback_called

\* C13: wait_for_gp_notification on a connection that is not connected
\* raises the connection error at once: the call has returned after the
\* step, no future was created and no waiter was added to the dict.
WaitFailsWhenNotConnected ==
    [][\A p \in Proc, a \in Addr, k \in Pred :
           (WaitBegin(p, a, k) /\ ~is_connected(connected_furbys[a])) =>
               /\ proc'[p] = Returned("BleakError")
               /\ UNCHANGED <<fut, one_time_gp_callbacks>>
      ]_vars

\* C13 witness: a wait has failed with the connection error on a connection
\* that is in the registry and not connected.
WaitRefused ==
    \E p \in Proc, a \in Addr :
        /\ proc[p].result = "BleakError"
        /\ connected_furbys[a] # None
        /\ ~is_connected(connected_furbys[a])
        /\ one_time_gp_callbacks[connected_furbys[a]] = <<>>

\* C14 (as stated): a write on a connection that is not connected, on any of
\* the three channels, hands nothing to the transport and fails: what the
\* caller gets differs from what a completed write gives.
WriteRefusedWhenNotConnected ==
    [][\A p \in Proc, a \in Addr, chan \in Channel, data \in WriteData :
           (WriteBegin(p, a, chan, data) /\ ~is_connected(connected_furbys[a])) =>
               /\ proc'[p].pc = "idle"
               /\ proc'[p].out = <<>>
               /\ proc'[p].result # WriteOutcome(TRUE)
      ]_vars

\* C15 (as stated): a write whose transport write raises reports the failure
\* to its caller, what the caller gets differing from a completed write, and
\* leaves the connection as it was; a write on a connected connection is
\* handed to the transport whatever happened to the writes before it.
WriteFailureReported ==
    [][/\ \A p \in Proc :
              (proc[p].op = "write" /\ WriteDone(p, FALSE)) =>
                  /\ proc'[p].result # WriteOutcome(TRUE)
                  /\ UNCHANGED cvars
       /\ \A p \in Proc, a \in Addr, chan \in Channel, data \in WriteData :
              (WriteBegin(p, a, chan, data) /\ is_connected(connected_furbys[a])) =>
                  /\ proc'[p].pc = "write_gatt"
                  /\ proc'[p].out = <<[chan |-> chan, data |-> data]>>
      ]_vars

\* The names the lookup must not find: a category by itself, a shortcut or
\* a category that does not exist, a direct command used as a category, a
\* path with two '/', a name that is not in the table.
Unresolvable ==
    {<<"other">>, <<"other", "nope">>, <<"nocat", "giggle">>, <<"antenna", "antennared">>,
     <<"other", "giggle", "x">>, <<"bogus">>}

\* C17: execute_action called with a name that does not resolve to a direct
\* command returns False in its first step; no frame is handed to the
\* transport and nothing else changes: connections, idle loops, waiters.
UnknownNameDoesNothing ==
    [][\A p \in Proc :
           (ExecuteBegin(p) /\ proc[p].name \in Unresolvable) =>
               /\ proc'[p] = Returned("False")
               /\ UNCHANGED <<cvars, wvars>>
      ]_vars

\* C17 witness: a call with such a name is about to run on a connection
\* that is connected and has an idle loop.
UnknownNameCalled ==
    \E p \in Proc :
        /\ proc[p].pc = "called"
        /\ proc[p].name \in Unresolvable
        /\ is_connected(proc[p].conn)
        /\ idle_interval[proc[p].conn] # None

\* The call of process p names a shortcut of a category.
IsShortcut(p) ==
    /\ Len(proc[p].name) = 2
    /\ proc[p].name[1] \in Categories
    /\ proc[p].name[2] \in DOMAIN Buttons(proc[p].name[1])

\* C18: execute_action called with "category/shortcut" and any params does
\* what the shortcut's target command does with the shortcut's fixed
\* parameters: the same frames are issued in the same order and the same
\* value is returned, whatever the caller passed as params.
ShortcutRunsTarget ==
    [][\A p \in Proc :
           (ExecuteBegin(p) /\ IsShortcut(p)) =>
               LET button == Buttons(proc[p].name[1])[proc[p].name[2]]
                   e == Encode(button.cmd, button.params)
                   direct == IF e.ok
                             THEN Advance([proc[p] EXCEPT !.cmd = button.cmd,
                                                          !.todo = e.writes])
                             ELSE Returned("False")
               IN /\ proc'[p].pc = direct.pc
                  /\ proc'[p].cmd = direct.cmd
                  /\ proc'[p].out = direct.out
                  /\ proc'[p].todo = direct.todo
                  /\ proc'[p].result = direct.result
                  /\ UNCHANGED <<cvars, wvars>>
      ]_vars

\* C18 witness: the shortcut other/antennared, called with three parameters
\* of 255, has handed the frame 14 FF 00 00 to the transport.
ShortcutIgnoresParams ==
    \E p \in Proc :
        /\ proc[p].name = <<"other", "antennared">>
        /\ proc[p].params = Dict(<<IntVal(255), IntVal(255), IntVal(255)>>)
        /\ proc[p].pc = "write_gatt"
        /\ proc[p].out = <<general_plus_write(<<20, 255, 0, 0>>)>>

\* The integer parameters of the direct commands, with their defaults, and
\* the values each command accepts.
Defaults(cmd) ==
    CASE cmd \in {"antenna", "mood_meter"} -> <<0, 0, 0>>
      [] cmd = "action" -> <<0, 0, 0, 0>>
      [] cmd \in {"lcd", "set_name"} -> <<0>>
      [] cmd \in {"set_idle", "nordic_packet_ack", "dlc_delete", "dlc_load",
                  "dlc_deactivate"} -> <<-1>>
      [] OTHER -> <<>>

Accepted(cmd) ==
    CASE cmd = "set_name" -> 0..128
      [] cmd \in {"set_idle", "nordic_packet_ack"} -> {0, 1}
      [] OTHER -> 0..255

\* A validation failure: a numeric parameter that cannot be coerced or is
\* outside what the command accepts, a hex string that is missing or wrong.
ValidationFails(cmd, params) ==
    /\ params.dict
    /\ \/ \E i \in DOMAIN Defaults(cmd) :
              LET n == Coerce(Arg(params, i), Defaults(cmd)[i]) IN
              ~n.ok \/ n.v \notin Accepted(cmd)
       \/ /\ cmd \in {"custom_command", "nordic_custom"}
          /\ Falsy(Arg(params, 1)) \/ ~FromHex(Arg(params, 1)).ok

\* C19: a direct command whose parameters fail validation returns False in
\* its first step: no frame is handed to the transport and the idle loop,
\* like the rest of the state, is as it was.
InvalidParamsDoNothing ==
    [][\A p \in Proc :
           (/\ ExecuteBegin(p)
            /\ Len(proc[p].name) = 1
            /\ proc[p].name[1] \in DirectCommands \ {"flash_dlc"}
            /\ ValidationFails(proc[p].name[1], proc[p].params)) =>
               /\ proc'[p] = Returned("False")
               /\ UNCHANGED <<cvars, wvars>>
      ]_vars

\* C19 witness: on a connected connection whose idle loop is running, a
\* set_idle with the flag 128 or an antenna with a colour of 256 is about to
\* run.
InvalidParamsCalled ==
    \E p \in Proc :
        /\ proc[p].pc = "called"
        /\ is_connected(proc[p].conn)
        /\ IdleRunning(proc[p].conn)
        /\ \/ proc[p].name = <<"set_idle">> /\ proc[p].params = Dict(<<IntVal(128)>>)
           \/ /\ proc[p].name = <<"antenna">>
              /\ proc[p].params = Dict(<<Absent, IntVal(256), Absent>>)

\* The bytes of the three colours when all are integers in 0..255.
Colours(params) ==
    IF /\ params.dict /\ Len(params.vals) = 3
       /\ \A i \in 1..3 : params.vals[i].k = "int" /\ params.vals[i].v[1] \in 0..255
    THEN <<params.vals[1].v[1], params.vals[2].v[1], params.vals[3].v[1]>>
    ELSE <<>>

\* C20: antenna called with r, g, b in 0..255 on a connected connection hands
\* exactly one frame to the transport, 14 r g b on the GeneralPlus write
\* characteristic, and returns True once that write is over.
AntennaWritesOneFrame ==
    [][\A p \in Proc :
           /\ (/\ ExecuteBegin(p)
               /\ proc[p].name = <<"antenna">>
               /\ Colours(proc[p].params) # <<>>
               /\ is_connected(proc[p].conn)) =>
                  /\ proc'[p].pc = "write_gatt"
                  /\ proc'[p].todo = <<>>
                  /\ proc'[p].out =
                         <<[chan |-> "generalplus_write",
                            data |-> <<20>> \o Colours(proc[p].params)]>>
           /\ \A ok \in BOOLEAN :
                  (WriteDone(p, ok) /\ proc[p].name = <<"antenna">>) =>
                      /\ Len(proc[p].out) = 1
                      /\ proc'[p] = Returned("True")
      ]_vars

\* C20 witness: antenna with red 255, green 0, blue 255 has handed its frame
\* to the transport and waits for the write to end.
AntennaFrameIssued ==
    \E p \in Proc :
        /\ proc[p].name = <<"antenna">>
        /\ proc[p].params = Dict(<<IntVal(255), IntVal(0), IntVal(255)>>)
        /\ proc[p].pc = "write_gatt"
        /\ proc[p].out = <<general_plus_write(<<20, 255, 0, 255>>)>>

\* C16: every execute_action call ends, and ends by returning True or False:
\* no exception of an encoder, of a write or of the wait for a notification
\* comes out of it; a shortcut makes the lookup call itself once, any other
\* name never.
ExecuteAlwaysReturnsBoolean ==
    /\ [][\A p \in Proc :
              (proc[p].op = "execute" /\ proc'[p].op # "execute") =>
                  /\ proc'[p].pc = "idle"
                  /\ proc'[p].result \in {"True", "False"}
         ]_vars
    /\ [](\A p \in Proc :
              proc[p].pc = "called" =>
                  Plans[Req(p)].depth = IF IsShortcut(p) THEN 1 ELSE 0)
    /\ \A p \in Proc : (proc[p].op = "execute") ~> (proc[p].op = "none")

\* C16 witness: a flash_dlc has written its prepare frame and is suspended
\* in its wait for the go-ahead on a connection whose link has dropped.
FlashWaitsOnLostLink ==
    \E p \in Proc :
        /\ proc[p].cmd = "flash_dlc"
        /\ proc[p].pc = "wait_future"
        /\ ~is_connected(proc[p].conn)

\* The name of a set_name call when it is given as an integer (-1 for
\* anything else).
NameOf(params) ==
    IF params.dict /\ Len(params.vals) = 1 /\ params.vals[1].k = "int"
    THEN params.vals[1].v[1]
    ELSE -1

\* C21: set_name on a connection that is connected throughout: a name in
\* 0..128 hands 21 name to the transport first and, only when that write is
\* over, 13 00 21 00 00 name, both on the GeneralPlus write characteristic,
\* and returns True after the second; an integer outside 0..128 returns False
\* in the first step and nothing is written.
SetNameWritesTwoFrames ==
    [][\A p \in Proc :
           LET n == NameOf(proc[p].params)
               first == [chan |-> "generalplus_write", data |-> <<33, n>>]
               second == [chan |-> "generalplus_write", data |-> <<19, 0, 33, 0, 0, n>>]
           IN
           proc[p].name = <<"set_name">> /\ proc[p].params.dict
                                         /\ proc[p].params.vals[1].k = "int" =>
               /\ (ExecuteBegin(p) /\ n \in 0..128 /\ is_connected(proc[p].conn)) =>
                      /\ proc'[p].pc = "write_gatt"
                      /\ proc'[p].out = <<first>>
               /\ (ExecuteBegin(p) /\ n \notin 0..128) =>
                      /\ proc'[p] = Returned("False")
                      /\ UNCHANGED <<cvars, wvars>>
               /\ \A ok \in BOOLEAN :
                      (WriteDone(p, ok) /\ is_connected(proc[p].conn)) =>
                          \/ /\ proc[p].out = <<first>>
                             /\ proc'[p].pc = "write_gatt"
                             /\ proc'[p].out = <<first, second>>
                          \/ /\ proc[p].out = <<first, second>>
                             /\ proc'[p] = Returned("True")
      ]_vars

\* C21 witness: set_name 128 has had its first write completed and waits
\* for the end of the second one, both frames handed over in order.
SetNameSecondFrameIssued ==
    \E p \in Proc :
        /\ proc[p].name = <<"set_name">>
        /\ proc[p].params = Dict(<<IntVal(128)>>)
        /\ proc[p].pc = "write_gatt"
        /\ proc[p].out = <<general_plus_write(<<33, 128>>),
                           general_plus_write(<<19, 0, 33, 0, 0, 128>>)>>

\* The size that a prepare frame announces (its bytes 3 to 5).
AnnouncedSize(frame) == frame.data[3] * 65536 + frame.data[4] * 256 + frame.data[5]

\* The pieces of 20 bytes, the last one shorter when n is no multiple of 20,
\* of a file of n bytes, as frames of the file write characteristic.
PiecesOf(n) ==
    [i \in 1..((n + 19) \div 20) |->
        [chan |-> "file_write",
         data |-> [j \in 1..(IF 20 * i <= n THEN 20 ELSE n - 20 * (i - 1)) |->
                      dlc_content(FileOf(n))[20 * (i - 1) + j]]]]

\* The step ends a flash_dlc call of process p with True: the call saw the
\* go-ahead (flash_dlc returns True nowhere else).
FlashEndsTrue(p) ==
    /\ proc[p].op = "execute"
    /\ proc[p].cmd = "flash_dlc"
    /\ proc'[p].op # "execute"
    /\ proc'[p].result = "True"

\* C22: a flash_dlc call that saw the go-ahead hands to the transport, on the
\* file write characteristic, exactly the ceil(n/20) pieces of its n-byte
\* file in file order, one after the previous one's write and sleep are
\* over: when it ends, the frames after the prepare frame are the pieces of
\* the file.
FlashWritesEveryChunk ==
    [][\A p \in Proc :
           FlashEndsTrue(p) =>
               Tail(proc[p].out) = PiecesOf(AnnouncedSize(proc[p].out[1]))
      ]_vars

\* The frame is a prepare frame: 50 00 and what follows, on the GeneralPlus
\* write characteristic.
IsPrepare(frame) ==
    /\ frame.chan = "generalplus_write"
    /\ Len(frame.data) >= 8
    /\ frame.data[1] = 80 /\ frame.data[2] = 0

\* Process p runs flash_dlc.
Flashing(p) == proc[p].op = "execute" /\ proc[p].cmd = "flash_dlc"

\* The wait of process p holds a frame that begins with 24 02.
SawGoAhead(p) ==
    /\ fut[p].state = "result"
    /\ Len(fut[p].data) >= 2
    /\ fut[p].data[1] = 36 /\ fut[p].data[2] = 2

PieceInFlight(p) ==
    /\ Flashing(p)
    /\ proc[p].pc = "write_gatt"
    /\ proc[p].out[Len(proc[p].out)].chan = "file_write"

\* C24: a flash_dlc call whose piece fails, by an error of the transport's
\* write or by the connection being lost when the piece is due, ends there
\* with False and hands over no later piece; a call that ends with True has
\* handed every piece of its file to the transport.
FlashAbortsOnFailedPiece ==
    [][\A p \in Proc :
           /\ (PieceInFlight(p) /\ WriteDone(p, FALSE)) =>
                  proc'[p].op # "execute" /\ proc'[p].result = "False"
           /\ (/\ Flashing(p) /\ proc[p].pc = "sleep"
               /\ proc[p].todo # <<>> /\ ~is_connected(proc[p].conn)
               /\ SleepDone(p)) =>
                  proc'[p].op # "execute" /\ proc'[p].result = "False"
           /\ FlashEndsTrue(p) =>
                  Len(proc[p].out) = 1 + (AnnouncedSize(proc[p].out[1]) + 19) \div 20
      ]_vars

\* The frames handed to the transport so far by the calls in flight.
FramesOut == [p \in Proc |-> proc[p].out]

\* C25: a targeted dispatch starts execute_action on the target's connection
\* exactly when the target is a key of the registry whose connection is
\* connected, and then reports success exactly when execute_action returned
\* True; otherwise it returns the not-found failure at once: no
\* execute_action is started, no frame is written and the registry is as it
\* was.
TargetedDispatch ==
    [][dispatch.target # None =>
           LET t == dispatch.target
               c == connected_furbys[t]
           IN
           /\ (DispatchBegin /\ c # None /\ client[c] # "None" /\ link[c]) =>
                  /\ dispatch'.pc = "await"
                  /\ \E p \in Proc :
                        /\ dispatch'.tasks = <<p>>
                        /\ proc'[p].op = "execute" /\ proc'[p].conn = c
                        /\ proc'[p].name = dispatch.name
                        /\ proc'[p].params = dispatch.params
           /\ (DispatchBegin /\ ~(c # None /\ client[c] # "None" /\ link[c])) =>
                  /\ dispatch'.pc = "returned"
                  /\ ~dispatch'.success
                  /\ dispatch'.response_data = NotFoundText(t)
                  /\ UNCHANGED <<connected_furbys, proc>>
                  /\ FramesOut' = FramesOut
           /\ (dispatch.pc # "returned" /\ dispatch'.pc = "returned" /\ dispatch.pc # "called") =>
                  /\ dispatch.pc = "await"
                  /\ dispatch'.success = (proc[dispatch.tasks[1]].result = "True")
      ]_vars

\* C25 witness: a targeted dispatch has returned success after its
\* execute_action returned True.
TargetedDispatchSucceeded ==
    /\ dispatch.pc = "returned"
    /\ dispatch.target # None
    /\ dispatch.success
    /\ proc[dispatch.tasks[1]].result = "True"

\* The counts that a broadcast's summary reports: successes, then failures.
Counts(text) == SelectSeq(text, LAMBDA x : x.w = "#")

\* The entries of the registry whose connection is connected.
ConnectedEntries ==
    {a \in Furby : /\ connected_furbys[a] # None
                   /\ client[connected_furbys[a]] # "None"
                   /\ link[connected_furbys[a]]}

\* C26: a broadcast starts one execute_action on every entry of the registry
\* that is connected when the dispatch starts and on no other, returns only
\* when all of them have ended (none is started again), and reports counts
\* of successes and failures that add up to the number of attempts, the
\* successes being the calls that returned True; it reports overall success
\* exactly when one attempt at least succeeded.  With no connected entry it
\* fails at once and starts nothing.
BroadcastDispatch ==
    [][dispatch.target = None =>
           /\ (DispatchBegin /\ ConnectedEntries = {}) =>
                  /\ dispatch'.pc = "returned"
                  /\ ~dispatch'.success
                  /\ UNCHANGED <<connected_furbys, proc>>
           /\ (DispatchBegin /\ ConnectedEntries # {}) =>
                  LET targets == dispatch'.active_targets
                      tasks == dispatch'.tasks
                  IN
                  /\ dispatch'.pc = "gather"
                  /\ Len(targets) = Cardinality(ConnectedEntries)
                  /\ {targets[i] : i \in DOMAIN targets} = ConnectedEntries
                  /\ Len(tasks) = Len(targets)
                  /\ \A i, j \in DOMAIN tasks : tasks[i] = tasks[j] => i = j
                  /\ \A i \in DOMAIN tasks :
                        /\ proc'[tasks[i]].op = "execute"
                        /\ proc'[tasks[i]].pc = "called"
                        /\ proc'[tasks[i]].conn = connected_furbys[targets[i]]
                        /\ proc'[tasks[i]].name = dispatch.name
                        /\ proc'[tasks[i]].params = dispatch.params
                  /\ \A p \in Proc :
                        p \notin {tasks[i] : i \in DOMAIN tasks} => proc'[p] = proc[p]
           /\ dispatch.pc = "gather" =>
                  /\ \A p \in Proc : proc[p].op = "none" => proc'[p].op = "none"
                  /\ dispatch'.pc = "returned" =>
                        LET counts == Counts(dispatch'.response_data)
                            succeeded == {i \in DOMAIN dispatch.tasks :
                                             proc[dispatch.tasks[i]].result = "True"}
                        IN
                        /\ \A i \in DOMAIN dispatch.tasks : proc[dispatch.tasks[i]].op = "none"
                        /\ Len(counts) = 2
                        /\ counts[1].n = Cardinality(succeeded)
                        /\ counts[1].n + counts[2].n = Len(dispatch.tasks)
                        /\ dispatch'.success = (succeeded # {})
      ]_vars

\* C26 witness: a broadcast to two connected devices has returned, one
\* attempt having succeeded and the other failed.
BroadcastOneOfTwoSucceeded ==
    /\ dispatch.pc = "returned"
    /\ dispatch.target = None
    /\ Len(dispatch.tasks) = 2
    /\ proc[dispatch.tasks[1]].result = "True"
    /\ proc[dispatch.tasks[2]].result = "False"
    /\ dispatch.success

\* C27: in a broadcast of antenna to two devices or more, an attempt whose
\* transport write raises is a failure of the broadcast: the attempt ends
\* with a result that is not True, so that its device is counted and listed
\* among the failures while the devices whose write succeeded are counted
\* as successes.
BroadcastCountsFailedWrite ==
    [][\A p \in Proc :
           /\ (/\ dispatch.pc = "gather"
               /\ Len(dispatch.tasks) >= 2
               /\ p \in Attempts
               /\ proc[p].name = <<"antenna">>
               /\ WriteDone(p, FALSE)) =>
                  proc'[p].op = "none" /\ proc'[p].result # "True"
           /\ (/\ dispatch.pc = "gather"
               /\ dispatch'.pc = "returned"
               /\ dispatch.name = <<"antenna">>) =>
                  Counts(dispatch'.response_data)[1].n =
                      Cardinality({i \in DOMAIN dispatch.tasks :
                                      proc[dispatch.tasks[i]].result = "True"})
      ]_vars

\* C29: the handler answers a POST /cmd with 200 when the dispatch
\* succeeded, with 400 when the dispatch found nothing to act on (its target
\* is no key of the registry or is not connected, or it is a broadcast and
\* no entry is connected), and with 500 for every other failure.
CmdStatusCodes ==
    [][GatewayAnswersCmd =>
           gateway'.status =
               IF dispatch.success THEN 200
               ELSE IF dispatch.tasks = <<>> THEN 400
               ELSE 500
      ]_vars

\* C28: the per-device actions of a broadcast run concurrently: while the
\* gather is pending every attempt that has not ended can take its own next
\* step whatever the state of the others (none is delayed), a step of one
\* attempt leaves every other attempt as it was and an ended attempt keeps
\* its result (none is cancelled), and every attempt runs to completion.
BroadcastAttemptsRunConcurrently ==
    /\ [](dispatch.pc = "gather" =>
             \A p \in Attempts : Ended(p) \/ ENABLED OwnStep(p))
    /\ [][dispatch.pc = "gather" =>
             /\ \A p \in Attempts : Ended(p) => proc'[p] = proc[p]
             /\ \A p, q \in Attempts :
                    p # q /\ proc'[p] # proc[p] => proc'[q] = proc[q]
         ]_vars
    /\ \A p \in Proc : (dispatch.pc = "gather" /\ p \in Attempts) ~> Ended(p)

\* C28 witness: in a broadcast of flash_dlc one device's action has ended
\* with True while the other is still suspended in its wait.
BroadcastOneEndedOtherSuspended ==
    /\ dispatch.pc = "gather"
    /\ dispatch.name = <<"flash_dlc">>
    /\ \E p, q \in Attempts :
          /\ Ended(p) /\ proc[p].result = "True"
          /\ proc[q].pc = "wait_future"

\* The loop-side operation of the gateway call that timed out is still in
\* flight.
TimedOutInFlight ==
    /\ gateway.timed_out
    /\ IF gateway.call = "cmd" THEN dispatch.pc \in {"called", "await", "gather"}
       ELSE ~Ended(gateway.p)

\* C30: a gateway call that times out is answered with an error (500), the
\* timeout leaves the loop-side operation as it is (not cancelled, not
\* started again), and the operation runs to completion.
TimedOutOperationCompletes ==
    /\ [][GatewayTimesOut =>
             /\ gateway'.status = 500
             /\ UNCHANGED <<cvars, proc, dispatch>>
         ]_vars
    /\ TimedOutInFlight ~> ~TimedOutInFlight

\* The step ends a transport connect of process p with a failure.
ConnectFailsIn(p) ==
    /\ proc[p].pc \in {"connect_transport", "conn_transport"}
    /\ proc'[p].result \in {"False", "connect_failed"}

\* C31: when the transport connect fails, connect() returns False, client is
\* None and is_connected false afterwards, the step starts no keep-alive
\* task and leaves idle_interval alone; and connect() called on an object
\* that is not connected (as it is after the failure) creates a client and
\* attempts the transport connect.
ConnectFailureResetsClient ==
    [][/\ \A p \in Proc :
              ConnectFailsIn(p) =>
                  /\ proc'[p].op = "none"
                  /\ client'[proc[p].conn] = "None"
                  /\ ~(client'[proc[p].conn] # "None" /\ link'[proc[p].conn])
                  /\ task' = task
                  /\ idle_interval' = idle_interval
       /\ \A p \in Proc, c \in Conn :
              Connect(p, c) /\ ~is_connected(c) =>
                  /\ proc'[p].pc = "connect_transport"
                  /\ client'[c] = "BleakClient"
      ]_vars

\* C31 witness: on the only object constructed a connect() has failed and a
\* later connect() on it is awaiting the transport again.
ConnectAttemptedAgain ==
    /\ address[2] = None
    /\ \E p, q \in Proc :
          /\ proc[q].result = "False"
          /\ proc[p].op = "connect" /\ proc[p].pc = "connect_transport" /\ proc[p].conn = 1
          /\ client[1] = "BleakClient"

\* C32: the keep-alive loop hands the transport only the frame 00 on the
\* GeneralPlus write characteristic, one frame per pass and only from the
\* task's start or the end of a sleep, on a connected connection; a pass that
\* finds the connection not connected writes nothing and ends the task; so
\* a loop whose connection is not connected stops (unless the connection is
\* connected again before the loop's next pass).
KeepAliveWritesIdleFrameOnly ==
    /\ [][\A t \in Task :
            /\ IdleWrite(t) =>
                  /\ task[t].pc \in {"new", "sleep"}
                  /\ is_connected(task[t].conn)
                  /\ task'[t].frame.chan = "generalplus_write"
                  /\ task'[t].frame.data = <<0>>
            /\ task'[t].pc # "write" => task'[t].frame = <<>>
            /\ (task[t].pc = "write" /\ task'[t].pc # "write" /\ ~task[t].cancel) =>
                  task'[t].pc = "sleep"
            /\ (KeepAliveIterate(t) /\ ~is_connected(task[t].conn)) =>
                  task'[t].pc = "done"
        ]_vars
    /\ \A t \in Task :
          (Live(t) /\ ~is_connected(task[t].conn))
              ~> (~Live(t) \/ is_connected(task[t].conn))

\* C32 witness: the link was lost and a keep-alive task that nobody
\* cancelled has ended.
KeepAliveStoppedOnLostLink ==
    \E t \in Task :
        /\ task[t].pc = "done"
        /\ ~task[t].cancel
        /\ client[task[t].conn] = "BleakClient"
        /\ ~link[task[t].conn]

\* C33: a keep-alive write that fails with a transport error ends the loop:
\* the step in which the write fails finishes the task, and a task whose
\* last write failed hands no further idle frame to the transport.
KeepAliveEndsOnFailedWrite ==
    [][\A t \in Task :
          /\ (task[t].pc = "write" /\ task'[t].failed) => ~(task'[t].pc \in {"new", "write", "sleep"})
          /\ IdleWrite(t) => ~task[t].failed
      ]_vars

\* C34: a coroutine that a handler has handed to server_event_loop is run by
\* the loop: an _execute_command_async that was submitted takes its first
\* step.
MarshalledOperationRuns ==
    (dispatch.pc = "called") ~> (dispatch.pc # "called")

\* C35, for a disconnect() on a connected connection whose transport
\* disconnect succeeds: when _disconnect_async has called disconnect() and
\* removed the entry, the connection is torn down: its link is closed, no
\* keep-alive task of it is live, no persistent callback is registered and
\* its notifications are stopped.
DisconnectedIsTornDown ==
    [][\A p \in Proc :
          (/\ proc[p].pc = "disc_transport"
           /\ proc'[p].result = "disconnected"
           /\ ~link'[proc[p].conn]) =>
              LET c == proc[p].conn IN
              /\ connected_furbys'[proc[p].addr] = None
              /\ \A t \in Task : task'[t].conn = c => task'[t].pc \notin {"new", "write", "sleep"}
              /\ gp_listen_callback'[c] = "None"
              /\ ~notifying'[c]
      ]_vars

\* C36: in every reachable state a connection's idle_interval holds a task
\* exactly when a keep-alive task of the connection is live.
IdleHandleIffLoopLive ==
    \A c \in Conn : (idle_interval[c] # None) <=> (LiveTasks(c) # {})

\* C40: whatever the interleaving of _connect_async coroutines for one
\* address, every connection that is connected or has a live keep-alive
\* task is the one connected_furbys holds for its address.
ConnectedIsRegistered ==
    \A c \in Conn :
        (is_connected(c) \/ LiveTasks(c) # {}) =>
            (address[c] # None /\ connected_furbys[address[c]] = c)

\* The prepare frame of flash_dlc call p is with the transport and the call
\* has not yet registered its waiter.
PrepareInFlight(p) ==
    /\ Flashing(p)
    /\ proc[p].pc = "write_gatt"
    /\ Len(proc[p].out) = 1
    /\ IsPrepare(proc[p].out[1])

\* C37: a ready notification (24 02) that the handler takes up while a
\* flash_dlc call on its connection has issued the prepare write, the write
\* call not yet returned, is not consumed by the persistent callback or
\* dropped: the step leaves it for that call (still to be handled, or
\* already the result of the call's wait).
ReadyFrameReachesFlash ==
    [][\A p \in Proc :
          (/\ inbox # <<>>
           /\ inbox' = Tail(inbox)
           /\ condition_check(Head(inbox).data)
           /\ Head(inbox).conn = proc[p].conn
           /\ PrepareInFlight(p)) =>
              fut'[p].state = "result"
      ]_vars

\* C39: every wait_for_gp_notification call that is suspended with a pending
\* future holds its own entry in its connection's one_time_gp_callbacks, so
\* that a later matching frame can resolve it, also when another pending
\* call was given the same condition_check object.
EveryPendingWaitHasItsEntry ==
    \A p \in Proc :
        (proc[p].pc = "wait_future" /\ fut[p].state = "pending") =>
            \E i \in DOMAIN one_time_gp_callbacks[proc[p].conn] :
                one_time_gp_callbacks[proc[p].conn][i].fut = p

\* C38: a notification received on the Nordic listen characteristic fulfils
\* no waiter: the handler step that takes it up resolves no future and
\* removes no entry of one_time_gp_callbacks.
NordicFrameResolvesNoWaiter ==
    [][(/\ inbox # <<>>
        /\ inbox' = Tail(inbox)
        /\ Head(inbox).sender = "nordic_listen") =>
           /\ fut' = fut
           /\ one_time_gp_callbacks' = one_time_gp_callbacks
      ]_vars

====
